---- MODULE Spec2Model ----
(***************************************************************************)
(* A model of the IFC to CityGML 3.0 converter (src/ifc2citygml.py).       *)
(*                                                                         *)
(* The specifications share the variables below:                           *)
(*   SpecSolid  is_intended_solid applied to one element's representation  *)
(*   SpecStorey _find_storey_for_element, one step per call                *)
(*   SpecDW     get_doors_and_windows_in_element applied to one host       *)
(*   SpecMat    get_element_materials_with_faces for a layered material    *)
(*   SpecApp    get_geometry_with_surface_ids followed by add_appearance   *)
(*   Spec       CityGMLGenerator.generate, one step per loop iteration     *)
(* Strings are Python strings, sequences are Python lists (position p of a *)
(* sequence is Python index p-1), None is the Python None.                 *)
(***************************************************************************)
EXTENDS Integers, Sequences, FiniteSets, TLC

VARIABLES
    pc,                     \* position of the running operation
    \* ---- is_intended_solid
    representation,         \* element.Representation: [present, Representations]
    solid_result,           \* value returned by is_intended_solid
    \* ---- _find_storey_for_element
    fs_arg,                 \* the element the outermost call was made for
    fs_element,             \* the argument of the call that is running
    fs_calls,               \* number of recursive calls made so far
    fs_result,              \* the value returned
    \* ---- relation graph of the IFC model (read-only input)
    HasOpenings,            \* element -> list of RelatedOpeningElement, one per IfcRelVoidsElement
    HasFillings,            \* opening -> list of RelatedBuildingElement, one per IfcRelFillsElement
    dw_host,                \* argument of get_doors_and_windows_in_element
    dw_result,              \* list returned by get_doors_and_windows_in_element
    \* ---- geometry kernel output for one element and the appearance made of it
    shape,                  \* create_shape(settings, element): [ok, n_faces, materials, material_ids]
    no_appearances,         \* self.no_appearances
    material_layers,        \* MaterialLayers of the element's layer set: the colour of each
                            \* layer's material, <<>> for a layer whose material has none
    element_materials,      \* get_element_materials_with_faces(element): list of [color, face_indices]
    geometry,               \* (polygons, surface_ids, face_materials) of get_geometry_with_surface_ids
    appearance,             \* what add_appearance returned and emitted
    \* ---- the IFC model read by generate (read-only input)
    ifc_buildings,          \* model.by_type("IfcBuilding")
    Decomposes,             \* element -> RelatingObject of its IfcRelAggregates/IfcRelNests, or None
    ContainedInStructure,   \* element -> RelatingStructure of its containment relation, or None
    shapes,                 \* element -> what the geometry kernel gives for it
    properties_raise,       \* the elements for which add_properties raises
    same_object,            \* the library hands back the same Python object for an entity
                            \* it returned before
    unrelated_doors_windows_in_dummy_bce,   \* self.unrelated_doors_windows_in_dummy_bce
    no_storeys,             \* self.no_storeys
    \* ---- state of generate
    bldg_i,                 \* position of ifc_bldg in ifc_buildings
    idx,                    \* position in the list the running loop iterates
    element_gml_ids,        \* self.element_gml_ids: element -> gml:id
    exported_elements,      \* self.exported_elements
    embedded_doors_windows, \* doors/windows emitted as fillings of a host, this building
    dummy_bce_per_storey,   \* storey GlobalId (or "__UNMAPPED__") -> gml:id of its dummy bucket
    storey_elements,        \* result of the last _get_storey_elements call
    nodes,                  \* the feature nodes created so far, in creation order
    next_uuid,              \* number of uuid4 values drawn so far
    written                 \* tree.write has run

None == "None"

(***************************************************************************)
(* Generic list helpers.                                                   *)
(***************************************************************************)
Range(s) == {s[i] : i \in 1..Len(s)}

SeqsUpTo(S, n) == UNION {[1..k -> S] : k \in 0..n}

(***************************************************************************)
(* The entities of the IFC model and their classes.  ModelOrder is the     *)
(* enumeration order of the file, the order in which by_type lists them.   *)
(***************************************************************************)
ModelOrder ==
    <<"B1", "B2", "S1", "S2", "S3", "W1", "W2", "SL1", "CV1", "SP1", "FU1",
      "O1", "O2", "D1", "WN1", "PX1">>

Elements == Range(ModelOrder)

\* entity.is_a() without argument: the entity's own class
ifc_class(e) ==
    CASE e \in {"B1", "B2"} -> "IfcBuilding"
      [] e \in {"S1", "S2", "S3"} -> "IfcBuildingStorey"
      [] e = "W1"           -> "IfcWall"
      [] e = "W2"           -> "IfcWallStandardCase"
      [] e = "SL1"          -> "IfcSlab"
      [] e = "CV1"          -> "IfcCovering"
      [] e = "SP1"          -> "IfcSpace"
      [] e = "FU1"          -> "IfcFurniture"
      [] e \in {"O1", "O2"} -> "IfcOpeningElement"
      [] e = "D1"           -> "IfcDoor"
      [] e = "WN1"          -> "IfcWindow"
      [] e = "PX1"          -> "IfcBuildingElementProxy"

\* the classes of the model that specialise another class the converter names
Supertype(t) ==
    CASE t = "IfcWallStandardCase"       -> "IfcWall"
      [] t = "IfcFurniture"              -> "IfcFurnishingElement"
      [] t = "IfcSystemFurnitureElement" -> "IfcFurnishingElement"
      [] OTHER                           -> None

\* entity.is_a(t): the entity's class is t or a subtype of t
is_a(e, t) == ifc_class(e) = t \/ Supertype(ifc_class(e)) = t

(***************************************************************************)
(* Geometry Classifier: is_intended_solid.                                 *)
(***************************************************************************)
SOLID_REPRESENTATION_TYPES ==
    {"SweptSolid", "Brep", "AdvancedBrep", "CSG", "Clipping", "BoundingBox"}

\* str.lower() on the identifiers that occur in the model
lower(s) ==
    CASE s = "Body"        -> "body"
      [] s = "BODY"        -> "body"
      [] s = "Mesh"        -> "mesh"
      [] s = "FacetedBrep" -> "facetedbrep"
      [] s = "Axis"        -> "axis"
      [] s = "Box"         -> "box"
      [] OTHER             -> s

\* the literal list of line 354
BodyIdentifiers == {"body", "mesh", "facetedbrep"}

\* Python truthiness of an optional string
Truthy(s) == s # None /\ s # ""

\* the for loop of lines 349-361 from position i on; falling off the end is line 363
RECURSIVE ScanRepresentations(_, _)
ScanRepresentations(reps, i) ==
    IF i > Len(reps) THEN FALSE
    ELSE LET rid   == reps[i].RepresentationIdentifier
             rtype == reps[i].RepresentationType
         IN  IF Truthy(rid) /\ lower(rid) \notin BodyIdentifiers
             THEN ScanRepresentations(reps, i + 1)            \* continue
             ELSE IF rtype \in SOLID_REPRESENTATION_TYPES
                  THEN TRUE
                  ELSE ScanRepresentations(reps, i + 1)

\* a plausible slip: the identifier is compared without lower()
is_intended_solid_case_sensitive(rep) ==
    IF ~rep.present THEN FALSE
    ELSE \E i \in 1..Len(rep.Representations) :
            LET r == rep.Representations[i]
            IN  /\ ~(Truthy(r.RepresentationIdentifier)
                     /\ r.RepresentationIdentifier \notin BodyIdentifiers)
                /\ r.RepresentationType \in SOLID_REPRESENTATION_TYPES

\* lines 343-345: no Representation attribute, or a falsy one, gives False
is_intended_solid(rep) ==
    IF ~rep.present THEN FALSE ELSE ScanRepresentations(rep.Representations, 1)

\* bounds and input sets of SpecSolid
MaxReps == 2

RepIdentifiers == {None, "", "Body", "BODY", "mesh", "FacetedBrep", "Axis"}

RepTypes == SOLID_REPRESENTATION_TYPES \cup {"SurfaceModel", "sweptsolid", None}

SubRepresentations ==
    [RepresentationIdentifier : RepIdentifiers, RepresentationType : RepTypes]

(***************************************************************************)
(* Face-Material Grouping Engine: get_geometry_with_surface_ids and        *)
(* add_appearance.  Colour and transparency components are fixed-point     *)
(* numbers with 7 decimal digits: the integer v stands for v * 10^-7.      *)
(* A colour is <<r, g, b>>, a material <<r, g, b, transparency>>, and the  *)
(* empty tuple stands for None.                                            *)
(***************************************************************************)
\* a plausible slip: the key is built from the raw components
round6_missing(v) == v

\* round(x, 6): to the nearest multiple of 10^-6, a tie to the even one
round6(v) ==
    LET q == v \div 10
        d == v % 10
    IN  IF d < 5 THEN 10 * q
        ELSE IF d > 5 THEN 10 * (q + 1)
        ELSE IF q % 2 = 0 THEN 10 * q ELSE 10 * (q + 1)

\* lines 417-455: the kernel's materials that have a diffuse colour, in table order,
\* each with its transparency (0.0 unless the kernel gives a positive one)
RECURSIVE materials_list(_, _)
materials_list(materials, i) ==
    IF i > Len(materials) THEN <<>>
    ELSE LET mat  == materials[i]
             rest == materials_list(materials, i + 1)
         IN  IF mat.diffuse # <<>>
             THEN <<mat.diffuse \o
                    <<IF mat.transparency > 0 THEN mat.transparency ELSE 0>>>> \o rest
             ELSE rest

\* list[k] of Python: a negative k counts from the end; IndexError outside -len..len-1
PyIndexRaises(lst, k) == k >= Len(lst) \/ k < -Len(lst)

PyIndex(lst, k) == IF k >= 0 THEN lst[k + 1] ELSE lst[Len(lst) + k + 1]

\* lines 475-483 for the face with index face_idx: does the lookup raise IndexError
FaceMaterialRaises(face_idx, material_ids, mlist) ==
    /\ material_ids # <<>>
    /\ face_idx < Len(material_ids)
    /\ material_ids[face_idx + 1] < Len(mlist)
    /\ PyIndexRaises(mlist, material_ids[face_idx + 1])

\* lines 475-483: the material appended to face_materials for that face
FaceMaterial(face_idx, material_ids, mlist) ==
    IF material_ids # <<>> /\ face_idx < Len(material_ids)
    THEN LET mat_id == material_ids[face_idx + 1]
         IN  IF mat_id < Len(mlist) THEN PyIndex(mlist, mat_id) ELSE <<>>
    ELSE <<>>

\* the result (None, None, None) of the except branch, line 487
GeometryFailed ==
    [failed |-> TRUE, polygons |-> <<>>, surface_ids |-> <<>>, face_materials |-> <<>>]

\* uuid4 identifiers are fresh: the k-th value drawn in a run is <<"UUID", k>>
Uuid(k) == <<"UUID", k>>

\* lines 403-487; drawn is the number of uuid4 values drawn before the call
get_geometry_with_surface_ids(sh, drawn) ==
    IF ~sh.ok THEN GeometryFailed
    ELSE LET mlist == materials_list(sh.materials, 1)
             n     == sh.n_faces
         IN  IF \E p \in 1..n : FaceMaterialRaises(p - 1, sh.material_ids, mlist)
             THEN GeometryFailed
             ELSE [failed         |-> FALSE,
                   polygons       |-> [p \in 1..n |-> p - 1],
                   surface_ids    |-> [p \in 1..n |-> Uuid(drawn + p)],
                   face_materials |->
                       [p \in 1..n |-> FaceMaterial(p - 1, sh.material_ids, mlist)]]

\* line 727
material_key(mat_data) ==
    <<round6(mat_data[1]), round6(mat_data[2]), round6(mat_data[3]), round6(mat_data[4])>>

KeyPosition(groups, key) ==
    IF \E i \in 1..Len(groups) : groups[i].key = key
    THEN CHOOSE i \in 1..Len(groups) : groups[i].key = key
    ELSE 0

\* lines 719-730: the dict material_faces as the list of its items in insertion order,
\* built from face position p on
RECURSIVE GroupFaces(_, _, _)
GroupFaces(face_mats, p, groups) ==
    IF p > Len(face_mats) THEN groups
    ELSE IF face_mats[p] = <<>> THEN GroupFaces(face_mats, p + 1, groups)
    ELSE LET key == material_key(face_mats[p])
             at  == KeyPosition(groups, key)
         IN  IF at = 0
             THEN GroupFaces(face_mats, p + 1,
                             Append(groups, [key |-> key, faces |-> <<p - 1>>]))
             ELSE GroupFaces(face_mats, p + 1,
                             [groups EXCEPT ![at].faces = Append(@, p - 1)])

\* a plausible slip: a key seen again replaces its face list instead of extending it
RECURSIVE GroupFacesOverwrite(_, _, _)
GroupFacesOverwrite(face_mats, p, groups) ==
    IF p > Len(face_mats) THEN groups
    ELSE IF face_mats[p] = <<>> THEN GroupFacesOverwrite(face_mats, p + 1, groups)
    ELSE LET key == material_key(face_mats[p])
             at  == KeyPosition(groups, key)
         IN  IF at = 0
             THEN GroupFacesOverwrite(face_mats, p + 1,
                                      Append(groups, [key |-> key, faces |-> <<p - 1>>]))
             ELSE GroupFacesOverwrite(face_mats, p + 1,
                                      [groups EXCEPT ![at].faces = <<p - 1>>])

\* a plausible slip: every face opens a group of its own
RECURSIVE GroupFacesNoMerge(_, _, _)
GroupFacesNoMerge(face_mats, p, groups) ==
    IF p > Len(face_mats) THEN groups
    ELSE IF face_mats[p] = <<>> THEN GroupFacesNoMerge(face_mats, p + 1, groups)
    ELSE GroupFacesNoMerge(face_mats, p + 1,
                           Append(groups, [key   |-> material_key(face_mats[p]),
                                           faces |-> <<p - 1>>]))

material_faces_overwrite(face_mats) == GroupFacesOverwrite(face_mats, 1, <<>>)

material_faces_no_merge(face_mats) == GroupFacesNoMerge(face_mats, 1, <<>>)

material_faces(face_mats) == GroupFaces(face_mats, 1, <<>>)

\* a plausible slip: the face indices are read as the 1-based positions of IFC
RECURSIVE FaceTargetsOneBased(_, _, _)
FaceTargetsOneBased(face_indices, i, surface_ids) ==
    IF i > Len(face_indices) THEN <<>>
    ELSE LET face_idx == face_indices[i]
             rest     == FaceTargetsOneBased(face_indices, i + 1, surface_ids)
         IN  IF 0 < face_idx /\ face_idx <= Len(surface_ids)
             THEN <<surface_ids[face_idx]>> \o rest
             ELSE rest

\* lines 762-765 and 809-812: one target per face index that is a position of surface_ids
RECURSIVE FaceTargets(_, _, _)
FaceTargets(face_indices, i, surface_ids) ==
    IF i > Len(face_indices) THEN <<>>
    ELSE LET face_idx == face_indices[i]
             rest     == FaceTargets(face_indices, i + 1, surface_ids)
         IN  IF 0 <= face_idx /\ face_idx < Len(surface_ids)
             THEN <<surface_ids[face_idx + 1]>> \o rest
             ELSE rest

NoAppearance == [success |-> FALSE, material_count |-> 0, path |-> "none", materials |-> <<>>]

\* lines 732-769: the Appearance node of the primary path
PrimaryAppearance(element_id, surface_ids, groups) ==
    [success        |-> TRUE,
     material_count |-> Len(groups),
     path           |-> "primary",
     id             |-> <<"APP", element_id>>,
     materials      |->
        [mat_idx \in 1..Len(groups) |->
            [id           |-> <<"MAT", element_id, mat_idx - 1>>,
             diffuseColor |-> SubSeq(groups[mat_idx].key, 1, 3),
             transparency |-> groups[mat_idx].key[4],
             faces        |-> groups[mat_idx].faces,
             targets      |-> FaceTargets(groups[mat_idx].faces, 1, surface_ids)]]]

\* lines 779-820: the Appearance node of the fallback path
FallbackAppearance(element_id, geometry_id, surface_ids, mats) ==
    [success        |-> TRUE,
     material_count |-> Len(mats),
     path           |-> "fallback",
     id             |-> <<"APP", element_id>>,
     materials      |->
        [mat_idx \in 1..Len(mats) |->
            [id           |-> <<"MAT", element_id, mat_idx - 1>>,
             diffuseColor |-> mats[mat_idx].color,
             transparency |-> 0,
             faces        |-> mats[mat_idx].face_indices,
             targets      |->
                IF mats[mat_idx].face_indices # <<>> /\ surface_ids # <<>>
                THEN FaceTargets(mats[mat_idx].face_indices, 1, surface_ids)
                ELSE <<geometry_id>>]]]

\* a plausible slip: the materials of the element are preferred when there are any
AppearanceOfElementFirst(element_id, geometry_id, surface_ids, face_mats, mats, groups) ==
    IF mats # <<>>
    THEN FallbackAppearance(element_id, geometry_id, surface_ids, mats)
    ELSE IF face_mats # <<>> /\ surface_ids # <<>> /\ groups # <<>>
    THEN PrimaryAppearance(element_id, surface_ids, groups)
    ELSE NoAppearance

\* lines 732-822 once the dict material_faces is built: the primary path when it has a
\* group, else the fallback on the materials of the element
AppearanceOf(element_id, geometry_id, surface_ids, face_mats, mats, groups) ==
    IF face_mats # <<>> /\ surface_ids # <<>> /\ groups # <<>>
    THEN PrimaryAppearance(element_id, surface_ids, groups)
    ELSE IF mats = <<>> THEN NoAppearance
    ELSE FallbackAppearance(element_id, geometry_id, surface_ids, mats)

\* lines 712-822; mats is get_element_materials_with_faces(element), read only when
\* the primary path produced nothing
add_appearance(element_id, geometry_id, surface_ids, face_mats, mats) ==
    IF no_appearances THEN NoAppearance
    ELSE AppearanceOf(element_id, geometry_id, surface_ids, face_mats, mats,
                      material_faces(face_mats))

\* bound and input sets of SpecApp
MaxTriangles == 3

KernelMaterials ==
    {[diffuse |-> <<r, 0, 0>>, transparency |-> 0] : r \in {0, 4, 6}} \cup
    {[diffuse |-> <<0, 0, 0>>, transparency |-> 6],
     [diffuse |-> <<>>, transparency |-> 0]}

\* geom.materials: no material, one, or two
MaterialTables ==
    {<<>>} \cup {<<a>> : a \in KernelMaterials}
           \cup {<<a, b>> : a, b \in KernelMaterials}

KernelFailure == [ok |-> FALSE, n_faces |-> 0, materials |-> <<>>, material_ids |-> <<>>]

\* the meshes of up to MaxTriangles triangles with the material table tbl; a material
\* id is -1, an index of the table, or one past its end
ShapesWith(tbl) ==
    UNION {{[ok |-> TRUE, n_faces |-> n, materials |-> tbl, material_ids |-> ids] :
               ids \in {<<>>} \cup [1..n -> -1..Len(tbl)]} :
           n \in 0..MaxTriangles}

\* what get_element_materials_with_faces may return: nothing; one colour for all faces
\* (face_indices None, lines 610 and 665-680); or one colour of an indexed colour map
\* (lines 634-643) for the first face of the face set and for a face whose position
\* the mesh of the kernel does not have
ElementMaterials ==
    {<<>>,
     <<[color |-> <<10000000, 0, 0>>, face_indices |-> <<>>]>>,
     <<[color |-> <<10000000, 0, 0>>, face_indices |-> <<0, MaxTriangles>>]>>}

(***************************************************************************)
(* Relation traversal: by_type, get_decomposition, the Storey Containment  *)
(* Resolver.                                                               *)
(***************************************************************************)
\* model.by_type(t): the entities of class t or of a subtype, in file order
by_type(t) == LET Is(e) == is_a(e, t) IN SelectSeq(ModelOrder, Is)

\* ifcopenshell.util.element.get_decomposition as the source describes it ("via
\* decomposition (Decomposes relation)"): everything below the element in the
\* aggregation/nesting hierarchy, found level by level
RECURSIVE DecompositionBelow(_, _)
DecompositionBelow(frontier, found) ==
    LET children == {e \in Elements : Decomposes[e] \in frontier} \ found
    IN  IF children = {} THEN found
        ELSE DecompositionBelow(children, found \cup children)

get_decomposition(element) == DecompositionBelow({element}, {})

\* storey.ContainsElements: the RelatedElements of the containment relations of it
ContainsElements(structure) == {e \in Elements : ContainedInStructure[e] = structure}

\* a plausible slip: only what both relations name is kept
get_storey_elements_intersection(storey) ==
    get_decomposition(storey) \cap ContainsElements(storey)

\* _get_storey_elements, lines 1620-1636
_get_storey_elements(storey) ==
    get_decomposition(storey) \cup ContainsElements(storey)

\* _find_storey_for_element, lines 1586-1618; an element has at most one containment
\* relation and at most one aggregation/nesting parent
RECURSIVE _find_storey_for_element(_)
_find_storey_for_element(element) ==
    LET structure == ContainedInStructure[element]
        parent    == Decomposes[element]
    IN  IF structure # None /\ is_a(structure, "IfcBuildingStorey") THEN structure
        ELSE IF /\ structure # None /\ is_a(structure, "IfcBuilding")
                /\ parent # None /\ is_a(parent, "IfcBuildingStorey") THEN parent
        ELSE IF parent = None THEN None
        ELSE IF is_a(parent, "IfcBuildingStorey") THEN parent
        ELSE _find_storey_for_element(parent)

(***************************************************************************)
(* generate: the per-building lists the loops iterate.                     *)
(***************************************************************************)
\* keys of target_elements, lines 864-892, in insertion order
target_elements ==
    <<"IfcWall", "IfcWallStandardCase", "IfcRoof", "IfcSlab", "IfcColumn", "IfcBeam",
      "IfcMember", "IfcPlate", "IfcStair", "IfcStairFlight", "IfcRamp", "IfcRampFlight",
      "IfcFooting", "IfcPile", "IfcBuildingElementProxy", "IfcCurtainWall",
      "IfcCovering", "IfcRailing",
      "IfcFurnishingElement", "IfcFurniture", "IfcSystemFurnitureElement",
      "IfcDoor", "IfcWindow">>

\* a plausible slip: doors are exported in the wall loop as features of their own
wall_types_with_doors == <<"IfcWall", "IfcWallStandardCase", "IfcDoor">>

wall_types == <<"IfcWall", "IfcWallStandardCase">>

constructive_types ==
    <<"IfcRoof", "IfcSlab", "IfcColumn", "IfcBeam", "IfcMember", "IfcPlate",
      "IfcStair", "IfcStairFlight", "IfcRamp", "IfcRampFlight",
      "IfcFooting", "IfcPile", "IfcBuildingElementProxy", "IfcCurtainWall">>

installation_types == <<"IfcCovering", "IfcRailing">>

furniture_types == <<"IfcFurniture", "IfcSystemFurnitureElement", "IfcFurnishingElement">>

\* all_element_types of the storey loop, lines 1492-1498
all_element_types ==
    <<"IfcWall", "IfcWallStandardCase", "IfcRoof", "IfcSlab", "IfcColumn", "IfcBeam",
      "IfcMember", "IfcPlate", "IfcStair", "IfcStairFlight", "IfcRamp", "IfcRampFlight",
      "IfcFooting", "IfcPile", "IfcBuildingElementProxy",
      "IfcCurtainWall", "IfcCovering", "IfcRailing",
      "IfcFurniture", "IfcSystemFurnitureElement", "IfcFurnishingElement">>

\* line 931
building_elements(ifc_bldg) == get_decomposition(ifc_bldg)

\* line 952: the elements of exactly this class that belong to the building
building_ifc_elements(ifc_bldg, ifc_type) ==
    LET Mine(e) == e \in building_elements(ifc_bldg) /\ ifc_class(e) = ifc_type
    IN  SelectSeq(by_type(ifc_type), Mine)

\* the (class, element) pairs a loop over a list of classes visits, in order
RECURSIVE TypedElements(_, _, _)
TypedElements(ifc_bldg, types, i) ==
    IF i > Len(types) THEN <<>>
    ELSE LET elems == building_ifc_elements(ifc_bldg, types[i])
         IN  [k \in 1..Len(elems) |-> [ifc_type |-> types[i], elem |-> elems[k]]]
             \o TypedElements(ifc_bldg, types, i + 1)

\* line 938
rooms_list(ifc_bldg) ==
    LET Mine(e) == e \in building_elements(ifc_bldg)
    IN  SelectSeq(by_type("IfcSpace"), Mine)

\* line 1462
storeys_list(ifc_bldg) ==
    LET Mine(e) == e \in building_elements(ifc_bldg)
    IN  SelectSeq(by_type("IfcBuildingStorey"), Mine)

\* lines 1133-1135
building_doors_windows(ifc_bldg) ==
    LET Mine(e) == e \in building_elements(ifc_bldg)
    IN  SelectSeq(by_type("IfcDoor"), Mine) \o SelectSeq(by_type("IfcWindow"), Mine)

(***************************************************************************)
(* generate: what one loop iteration adds to the document.  A feature node *)
(* is [bldg, prop, feature, id, elem, bucket, attached, children]: the     *)
(* property element appended to the Building of bldg, the feature in it    *)
(* with its gml:id, the IFC element it stands for (None for a dummy        *)
(* bucket, whose key is in bucket), whether the property element is still  *)
(* a child of the Building, and the feature's children in document order.  *)
(* Names, descriptions and external references are not modelled: the       *)
(* elements of the model carry none.  Of the property sets only a failure  *)
(* to write them is modelled.                                              *)
(***************************************************************************)
\* element.Representation of the elements of the model
RepresentationOf(e) ==
    IF ifc_class(e) \in {"IfcWall", "IfcWallStandardCase", "IfcSlab"}
    THEN [present |-> TRUE,
          Representations |-> <<[RepresentationIdentifier |-> "Body",
                                 RepresentationType       |-> "SweptSolid"]>>]
    ELSE [present |-> FALSE, Representations |-> <<>>]

\* get_element_materials_with_faces for the elements of the model: they carry no
\* styled items and no material associations
ElementMaterialsOf(e) == <<>>

\* lines 981, 1071: the uuid4 values drawn for a geometry g, one per polygon and one
\* for the geometry node when there are polygons
GeometryUuids(g) == IF g.polygons # <<>> THEN Len(g.surface_ids) + 1 ELSE 0

\* lines 985-986
BodyAppearance(elem, element_id, geometry_id, g) ==
    IF g.polygons # <<>>
    THEN add_appearance(element_id, geometry_id, g.surface_ids, g.face_materials,
                        ElementMaterialsOf(elem))
    ELSE NoAppearance

\* lines 986-1013: the appearance child and the geometry child
BodyChildren(elem, geometry_id, g, app) ==
    (IF app.success THEN <<[tag |-> "appearance", appearance |-> app]>> ELSE <<>>)
    \o (IF g.polygons # <<>>
        THEN <<[tag         |-> IF is_intended_solid(RepresentationOf(elem))
                               THEN "lod3Solid" ELSE "lod3MultiSurface",
                id          |-> geometry_id,
                surface_ids |-> g.surface_ids]>>
        ELSE <<>>)

\* lines 981-1013 for the geometry g of the element
FeatureBodyOf(elem, element_id, drawn, g) ==
    [polygons |-> g.polygons,
     drawn    |-> drawn + GeometryUuids(g),
     children |-> BodyChildren(elem, Uuid(drawn + GeometryUuids(g)), g,
                               BodyAppearance(elem, element_id,
                                              Uuid(drawn + GeometryUuids(g)), g))]

\* lines 979-1013 (the same in every loop): geometry, appearance and geometry node of
\* one feature; drawn is the number of uuid4 values drawn before
FeatureBody(elem, element_id, drawn) ==
    FeatureBodyOf(elem, element_id, drawn,
                  get_geometry_with_surface_ids(shapes[elem], drawn))

\* lines 287-334: the con:filling child around the body of the door or window
FillingOf(door_or_window, body) ==
    [drawn |-> body.drawn,
     child |-> [tag      |-> "filling",
                feature  |-> IF is_a(door_or_window, "IfcDoor") THEN "Door" ELSE "Window",
                elem     |-> door_or_window,
                children |-> body.children]]

\* id(door_or_window) of line 307: the address of the Python object that stands for the
\* door or window (line 266 reads it from the relation). It is the address an earlier
\* filling of the same door or window used when the library hands back the same object.
\* A new object is alive together with the earlier ones of its building, which
\* embedded_doors_windows keeps (lines 1021 and 1115), and so has an address of its
\* own, told apart here by the uuid4 values drawn before. An address that is free again
\* after the set is dropped (line 896) may be handed out anew: no door or window of
\* the model is emitted after that, so this outcome is left out.
python_id(door_or_window, drawn) ==
    IF same_object THEN <<"object", door_or_window>> ELSE <<"object", Uuid(drawn)>>

\* _add_door_or_window_as_filling, lines 272-336
Filling(door_or_window, drawn) ==
    FillingOf(door_or_window,
              FeatureBody(door_or_window, <<"DW", python_id(door_or_window, drawn)>>,
                          drawn))

\* a child put in front of the children that follow it
WithChildFirst(child, rest) ==
    [drawn |-> rest.drawn, children |-> <<child>> \o rest.children]

\* the loops of lines 1021-1024, 1114-1117, 1197-1199 and 1226-1228 from position i on
RECURSIVE Fillings(_, _, _)
RECURSIVE FillingsAfter(_, _, _)
Fillings(doors_windows, i, drawn) ==
    IF i > Len(doors_windows) THEN [drawn |-> drawn, children |-> <<>>]
    ELSE FillingsAfter(doors_windows, i, Filling(doors_windows[i], drawn))

FillingsAfter(doors_windows, i, one) ==
    WithChildFirst(one.child, Fillings(doors_windows, i + 1, one.drawn))

\* a plausible slip: the element is marked exported whatever the geometry
mark_exported_always(exported, elem, polygons) == exported \cup {elem}

\* lines 1015-1016, 1106-1107, 1302-1303, 1373-1374, 1443-1444
mark_exported(exported, elem, polygons) ==
    IF polygons # <<>> THEN exported \cup {elem} ELSE exported

\* lines 1108-1109, 1304-1305, 1375-1376, 1445-1446: the speculative node is removed
\* from the Building when there are no polygons; the wall loop has no such branch
node_removed(phase, polygons) == phase # "walls" /\ polygons = <<>>

\* the dict assignment d[key] = value
Put(d, key, value) ==
    [k \in DOMAIN d \cup {key} |-> IF k = key THEN value ELSE d[k]]

\* a plausible slip: the link is written for every element that has an identifier
xlink_allowed_any_attempted(elem) == elem \in DOMAIN element_gml_ids

\* lines 1510 and 1528: the guard of a cross-reference
xlink_allowed(elem) ==
    elem \in DOMAIN element_gml_ids /\ elem \in exported_elements

\* lines 1500-1513: the links of the storey to the elements of the listed classes
RECURSIVE ElementXlinks(_, _, _)
ElementXlinks(ifc_bldg, in_storey, i) ==
    IF i > Len(all_element_types) THEN <<>>
    ELSE LET Mine(e) == e \in building_elements(ifc_bldg) /\ e \in in_storey
                        /\ xlink_allowed(e)
             type_elements == SelectSeq(by_type(all_element_types[i]), Mine)
         IN  [k \in 1..Len(type_elements) |->
                 [tag  |-> "xlink", prop |-> "buildingConstructiveElement",
                  href |-> element_gml_ids[type_elements[k]]]]
             \o ElementXlinks(ifc_bldg, in_storey, i + 1)

\* lines 1517-1522; the GlobalId of a storey is the storey's name in the model
DummyXlink(storey) ==
    IF storey \in DOMAIN dummy_bce_per_storey
    THEN <<[tag  |-> "xlink", prop |-> "buildingConstructiveElement",
            href |-> dummy_bce_per_storey[storey]]>>
    ELSE <<>>

\* lines 1525-1531
RoomXlinks(ifc_bldg, in_storey) ==
    LET Mine(e) == e \in in_storey /\ xlink_allowed(e)
        rooms   == SelectSeq(rooms_list(ifc_bldg), Mine)
    IN  [k \in 1..Len(rooms) |->
            [tag |-> "xlink", prop |-> "buildingRoom", href |-> element_gml_ids[rooms[k]]]]

vars ==
    <<pc, representation, solid_result, fs_arg, fs_element, fs_calls, fs_result,
      HasOpenings, HasFillings, dw_host, dw_result,
      shape, no_appearances, material_layers, element_materials, geometry, appearance,
      ifc_buildings, Decomposes, ContainedInStructure, shapes, properties_raise,
      same_object, unrelated_doors_windows_in_dummy_bce, no_storeys,
      bldg_i, idx, element_gml_ids, exported_elements, embedded_doors_windows,
      dummy_bce_per_storey, storey_elements, nodes, next_uuid, written>>

solidVars == <<representation, solid_result>>

fsVars == <<fs_arg, fs_element, fs_calls, fs_result>>

relVars == <<HasOpenings, HasFillings>>

dwVars == <<dw_host, dw_result>>

appInputs == <<shape, no_appearances, material_layers, element_materials>>

appVars ==
    <<shape, no_appearances, material_layers, element_materials, geometry, appearance>>

genInputs ==
    <<ifc_buildings, Decomposes, ContainedInStructure, shapes, properties_raise,
      same_object, unrelated_doors_windows_in_dummy_bce, no_storeys>>

genState ==
    <<bldg_i, idx, element_gml_ids, exported_elements, embedded_doors_windows,
      dummy_bce_per_storey, storey_elements, nodes, next_uuid, written>>

genVars == <<genInputs, genState>>

\* element.Representation is None
NoRepresentation == [present |-> FALSE, Representations |-> <<>>]

IdleSolid == representation = NoRepresentation /\ solid_result = FALSE

IdleFS == fs_arg = None /\ fs_element = None /\ fs_calls = 0 /\ fs_result = None

NoRelations == [e \in Elements |-> <<>>]

IdleRel == HasOpenings = NoRelations /\ HasFillings = NoRelations

IdleDW == dw_host = None /\ dw_result = <<>>

IdleApp ==
    /\ shape = KernelFailure
    /\ no_appearances = FALSE
    /\ material_layers = <<>>
    /\ element_materials = <<>>
    /\ geometry = GeometryFailed
    /\ appearance = NoAppearance

\* generate has not started
GenNotStarted ==
    /\ bldg_i = 0
    /\ idx = 0
    /\ element_gml_ids = <<>>
    /\ exported_elements = {}
    /\ embedded_doors_windows = {}
    /\ dummy_bce_per_storey = <<>>
    /\ storey_elements = {}
    /\ nodes = <<>>
    /\ next_uuid = 0
    /\ written = FALSE

\* an IFC model without buildings and relations, and generate not started
IdleGen ==
    /\ ifc_buildings = <<>>
    /\ Decomposes = [e \in Elements |-> None]
    /\ ContainedInStructure = [e \in Elements |-> None]
    /\ shapes = [e \in Elements |-> KernelFailure]
    /\ properties_raise = {}
    /\ same_object = FALSE
    /\ unrelated_doors_windows_in_dummy_bce = FALSE
    /\ no_storeys = FALSE
    /\ GenNotStarted

InitSolid ==
    /\ pc = "classify"
    /\ representation \in
          {NoRepresentation} \cup
          {[present |-> TRUE, Representations |-> r] :
              r \in SeqsUpTo(SubRepresentations, MaxReps)}
    /\ solid_result = FALSE
    /\ IdleFS /\ IdleRel /\ IdleDW /\ IdleApp /\ IdleGen

ClassifyElement ==
    /\ pc = "classify"
    /\ solid_result' = is_intended_solid(representation)
    /\ pc' = "classified"
    /\ UNCHANGED <<representation, fsVars, relVars, dwVars, appVars, genVars>>

NextSolid == ClassifyElement

SpecSolid == InitSolid /\ [][NextSolid]_vars

\* C10: is_intended_solid returns true exactly when the element has a representation
\* with a sub-representation whose identifier is unset/empty or, ignoring case, one of
\* body, mesh, facetedbrep, and whose type tag is in the solid-type set; an element
\* without a representation gives false.
AcceptedIdentifier(rid) ==
    rid \in {None, ""} \/ lower(rid) \in {"body", "mesh", "facetedbrep"}

CollectFillingsAnyKind(fillings, j, acc) == acc \o SubSeq(fillings, j, Len(fillings))

\* the inner loop of lines 264-268 over opening.HasFillings from position j on
RECURSIVE CollectFillings(_, _, _)
CollectFillings(fillings, j, acc) ==
    IF j > Len(fillings) THEN acc
    ELSE LET filling == fillings[j]
         IN  IF is_a(filling, "IfcDoor") \/ is_a(filling, "IfcWindow")
             THEN CollectFillings(fillings, j + 1, Append(acc, filling))
             ELSE CollectFillings(fillings, j + 1, acc)

\* the outer loop of lines 258-268 over element.HasOpenings from position i on
RECURSIVE CollectOpenings(_, _, _)
CollectOpenings(openings, i, acc) ==
    IF i > Len(openings) THEN acc
    ELSE LET opening == openings[i]
         IN  IF is_a(opening, "IfcOpeningElement")
             THEN CollectOpenings(openings, i + 1,
                                  CollectFillings(HasFillings[opening], 1, acc))
             ELSE CollectOpenings(openings, i + 1, acc)

get_doors_and_windows_in_element(element) ==
    CollectOpenings(HasOpenings[element], 1, <<>>)

\* bounds and input sets of SpecDW
MaxVoidRels == 2

MaxFillRels == 2

InitDW ==
    /\ pc = "resolve"
    /\ IdleSolid /\ IdleFS
    /\ \E hw \in SeqsUpTo({"O1", "O2"}, MaxVoidRels),
          ho \in SeqsUpTo({"O2"}, 1) :
          HasOpenings = [NoRelations EXCEPT !["W1"] = hw, !["O1"] = ho]
    /\ \E f1 \in SeqsUpTo({"D1", "WN1", "PX1"}, MaxFillRels),
          f2 \in SeqsUpTo({"D1", "WN1", "PX1"}, MaxFillRels) :
          HasFillings = [NoRelations EXCEPT !["O1"] = f1, !["O2"] = f2]
    /\ IdleDW /\ IdleApp /\ IdleGen

ResolveOpenings ==
    /\ pc = "resolve"
    /\ \E host \in {"W1", "SL1"} :
          /\ dw_host' = host
          /\ dw_result' = get_doors_and_windows_in_element(host)
    /\ pc' = "resolved"
    /\ UNCHANGED <<solidVars, fsVars, relVars, appVars, genVars>>

NextDW == ResolveOpenings

SpecDW == InitDW /\ [][NextDW]_vars

\* the two-hop relation of the claims: a void-relation of the host leads to an
\* opening o, a fill-relation of o leads to f
TwoHopFillings(host) ==
    {f \in Elements :
        \E o \in Range(HasOpenings[host]) : f \in Range(HasFillings[o])}

\* C4: the resolver returns exactly the doors and windows two hops away (void-relation,
\* then fill-relation); fillings of another kind and anything reachable only through
\* deeper nesting are left out; a host without void-relations gives the empty list.
C4_ExactlyTwoHopDoorsAndWindows ==
    pc = "resolved" =>
        /\ Range(dw_result) =
              {f \in TwoHopFillings(dw_host) :
                  ifc_class(f) \in {"IfcDoor", "IfcWindow"}}
        /\ HasOpenings[dw_host] = <<>> => dw_result = <<>>

\* O1 is filled by a door and by a proxy, the nested opening O2 by a window only:
\* the result is the door alone
C4_Witness ==
    /\ pc = "resolved"
    /\ dw_host = "W1"
    /\ HasOpenings["W1"] = <<"O1">>
    /\ HasOpenings["O1"] = <<"O2">>
    /\ HasFillings["O1"] = <<"D1", "PX1">>
    /\ HasFillings["O2"] = <<"WN1">>
    /\ dw_result = <<"D1">>

\* C5: the returned list holds no element twice, also when a door or window is
\* reached through two void-relations or two fill-relations.
C5_NoElementTwice ==
    pc = "resolved" =>
        \A i, j \in 1..Len(dw_result) : i # j => dw_result[i] # dw_result[j]

(***************************************************************************)
(* SpecApp: one element's geometry is extracted and, when it has polygons, *)
(* its appearance is emitted (lines 980-988 of the wall loop, the same in  *)
(* every other loop).                                                      *)
(***************************************************************************)
InitApp ==
    /\ pc = "extract"
    /\ IdleSolid /\ IdleFS /\ IdleRel /\ IdleDW /\ IdleGen
    /\ \E tbl \in MaterialTables : shape \in {KernelFailure} \cup ShapesWith(tbl)
    /\ no_appearances \in BOOLEAN
    /\ material_layers = <<>>
    /\ element_materials \in ElementMaterials
    /\ geometry = GeometryFailed
    /\ appearance = NoAppearance

ExtractGeometry ==
    /\ pc = "extract"
    /\ geometry' = get_geometry_with_surface_ids(shape, 0)
    /\ pc' = "extracted"
    /\ UNCHANGED <<solidVars, fsVars, relVars, dwVars, appInputs, appearance, genVars>>

\* geometry_id is set, and add_appearance called, only when polygons is non-empty
AddAppearance ==
    /\ pc = "extracted"
    /\ geometry.polygons # <<>>
    /\ appearance' = add_appearance("E", Uuid(Len(geometry.surface_ids) + 1),
                                    geometry.surface_ids, geometry.face_materials,
                                    element_materials)
    /\ pc' = "appearance"
    /\ UNCHANGED <<solidVars, fsVars, relVars, dwVars, appInputs, geometry, genVars>>

NextApp == ExtractGeometry \/ AddAppearance

SpecApp == InitApp /\ [][NextApp]_vars
\* the faces (0-based) that got a material from the kernel, and each one's rounded key
FacesWithMaterial == {p - 1 : p \in {q \in 1..Len(geometry.face_materials) :
                                        geometry.face_materials[q] # <<>>}}

KeyOfFace(f) == material_key(geometry.face_materials[f + 1])

FacesWithKey(k) == {f \in FacesWithMaterial : KeyOfFace(f) = k}

FirstSeen(k) == CHOOSE f \in FacesWithKey(k) : \A g \in FacesWithKey(k) : f <= g

GroupKey(m) == m.diffuseColor \o <<m.transparency>>

PrimaryDone == pc = "appearance" /\ appearance.path = "primary"

\* C7: on the primary path one material group is emitted per distinct rounded
\* (r,g,b,transparency) key among the triangles, in the order in which the keys are
\* first seen, and each group targets exactly the surface ids of the triangles that
\* have its key.  (The groups are a function of the per-triangle list alone, so a
\* second run on the same list gives the same partition.)
C7_OneGroupPerKeyInFirstSeenOrder ==
    PrimaryDone =>
        LET ms == appearance.materials
        IN  /\ Len(ms) = Cardinality({KeyOfFace(f) : f \in FacesWithMaterial})
            /\ appearance.material_count = Len(ms)
            /\ \A i \in 1..Len(ms) :
                  /\ FacesWithKey(GroupKey(ms[i])) # {}
                  /\ Range(ms[i].targets) =
                        {geometry.surface_ids[f + 1] : f \in FacesWithKey(GroupKey(ms[i]))}
                  /\ Len(ms[i].targets) = Cardinality(FacesWithKey(GroupKey(ms[i])))
            /\ \A i, j \in 1..Len(ms) :
                  i < j => FirstSeen(GroupKey(ms[i])) < FirstSeen(GroupKey(ms[j]))

\* three triangles with materials a, b, a: two groups, the first for triangles 0 and 2
C7_Witness ==
    /\ PrimaryDone
    /\ Len(appearance.materials) = 2
    /\ appearance.materials[1].faces = <<0, 2>>
    /\ appearance.materials[2].faces = <<1>>
    /\ appearance.materials[1].targets = <<<<"UUID", 1>>, <<"UUID", 3>>>>

GroupFaceSet(i) == Range(appearance.materials[i].faces)

GroupsDisjoint ==
    \A i, j \in 1..Len(appearance.materials) :
        i # j => GroupFaceSet(i) \cap GroupFaceSet(j) = {}

GroupsUnion == UNION {GroupFaceSet(i) : i \in 1..Len(appearance.materials)}

SameGroup(f, g) ==
    \E i \in 1..Len(appearance.materials) : {f, g} \subseteq GroupFaceSet(i)

\* two materials agree in the first six decimals of every component
DifferOnlyAt7thDecimal(m1, m2) ==
    /\ m1 # m2
    /\ \A c \in 1..4 : m1[c] \div 10 = m2[c] \div 10

\* in every component the two 7th digits lie on the same side of the midpoint 5
SameSideOfMidpoint(m1, m2) ==
    \A c \in 1..4 :
        \/ m1[c] % 10 < 5 /\ m2[c] % 10 < 5
        \/ m1[c] % 10 > 5 /\ m2[c] % 10 > 5

\* C9 as stated: triangles whose materials differ only at the 7th decimal place are
\* put into one and the same group.
C9_SeventhDecimalAlwaysMerged ==
    PrimaryDone =>
        \A f, g \in FacesWithMaterial :
            DifferOnlyAt7thDecimal(geometry.face_materials[f + 1],
                                   geometry.face_materials[g + 1])
                => SameGroup(f, g)

\* C9 amended: triangles whose materials differ only at the 7th decimal place are put
\* into one group when, in every component, the two 7th digits lie on the same side
\* of the rounding midpoint (both below 5 or both above 5).
C9_SeventhDecimalMergedOnSameSide ==
    PrimaryDone =>
        \A f, g \in FacesWithMaterial :
            /\ DifferOnlyAt7thDecimal(geometry.face_materials[f + 1],
                                      geometry.face_materials[g + 1])
            /\ SameSideOfMidpoint(geometry.face_materials[f + 1],
                                  geometry.face_materials[g + 1])
            => SameGroup(f, g)

\* red 0.0000000 and red 0.0000004 on triangles 0 and 1 ended in one group
C9_Witness ==
    /\ PrimaryDone
    /\ Len(geometry.face_materials) >= 2
    /\ geometry.face_materials[1] = <<0, 0, 0, 0>>
    /\ geometry.face_materials[2] = <<4, 0, 0, 0>>
    /\ Len(appearance.materials) = 1
    /\ appearance.materials[1].faces = <<0, 1>>

(***************************************************************************)
(* Spec: CityGMLGenerator.generate.  One step per loop iteration: a step   *)
(* processes one element (or one storey) of the building at hand and then  *)
(* moves to the next iteration of the same loop, to the first later loop   *)
(* that has something to iterate, to the next building, or to the write.   *)
(***************************************************************************)
\* one triangle with one coloured material, and a mesh without faces
GoodShape ==
    [ok |-> TRUE, n_faces |-> 1,
     materials |-> <<[diffuse |-> <<6, 0, 0>>, transparency |-> 0]>>,
     material_ids |-> <<0>>]

EmptyMesh == [ok |-> TRUE, n_faces |-> 0, materials |-> <<>>, material_ids |-> <<>>]

\* the spatial structure: storeys S1 and S3 in building B1, storey S2 in building B2, and for
\* every other element <<aggregation/nesting parent, containing structure>>; the slab,
\* the space and the door are all placed the same way
Placements ==
    {[e \in Elements |->
        CASE e = "S1"  -> <<"B1", None>>
          [] e = "S2"  -> <<"B2", None>>
          [] e = "S3"  -> <<"B1", None>>
          [] e = "W1"  -> w1
          [] e = "W2"  -> <<"S2", None>>
          [] e \in {"SL1", "SP1", "D1"} -> other
          [] e = "WN1" -> wn1
          [] e \in {"CV1", "FU1"} -> <<"S1", None>>
          [] OTHER     -> <<None, None>>] :
        w1    \in {<<"S1", None>>, <<"B1", "S1">>, <<"B1", None>>},
        other \in {<<"S1", None>>, <<"B1", "S1">>},
        wn1   \in {<<"B1", None>>, <<None, None>>, <<"S1", None>>, <<"S3", None>>}}

\* which hosts the door D1 fills an opening of; in the last case the window WN1 fills
\* an opening of the covering CV1
Hostings ==
    {[openings |-> NoRelations, fillings |-> NoRelations],
     [openings |-> [NoRelations EXCEPT !["W1"] = <<"O1">>],
      fillings |-> [NoRelations EXCEPT !["O1"] = <<"D1">>]],
     [openings |-> [NoRelations EXCEPT !["SL1"] = <<"O1">>],
      fillings |-> [NoRelations EXCEPT !["O1"] = <<"D1">>]],
     [openings |-> [NoRelations EXCEPT !["W1"] = <<"O1">>, !["SL1"] = <<"O2">>],
      fillings |-> [NoRelations EXCEPT !["O1"] = <<"D1">>, !["O2"] = <<"D1">>]],
     [openings |-> [NoRelations EXCEPT !["CV1"] = <<"O2">>],
      fillings |-> [NoRelations EXCEPT !["O2"] = <<"WN1">>]]}

\* what the library may do when an entity is reached a second time: it hands back the
\* Python object it handed over before, or a new one. The two differ only for a door
\* that fills openings of two hosts.
ObjectIdentities(h) ==
    IF \E o1, o2 \in DOMAIN h.fillings :
          o1 # o2 /\ Range(h.fillings[o1]) \cap Range(h.fillings[o2]) # {}
    THEN BOOLEAN ELSE {FALSE}

\* the kernel's answer per element when it fails for the elements listed
KernelAnswer(failing) ==
    [e \in Elements |->
        IF e \in failing THEN (IF e \in {"W1", "SP1", "FU1"} THEN KernelFailure ELSE EmptyMesh)
        ELSE IF e \in {"W1", "W2", "SL1", "CV1", "SP1", "FU1", "D1", "WN1"} THEN GoodShape
        ELSE KernelFailure]

KernelAnswers ==
    {KernelAnswer(failing) :
        failing \in {{}, {"W1"}, {"SL1"}, {"CV1"}, {"SP1"}, {"FU1"},
                     {"W1", "SL1", "CV1", "SP1", "FU1"}}}

\* the elements whose property sets cannot be written (a name or a value that the XML
\* library refuses, a property set the library cannot read): none, the building, the
\* slab, the door, the storey
PropertyFaults == {{}, {"B1"}, {"SL1"}, {"D1"}, {"S1"}}

\* what goes wrong in a run: the kernel fails for some elements, or the properties of
\* one element cannot be written
Faults ==
    {[shapes |-> answer, properties |-> {}] : answer \in KernelAnswers}
    \cup {[shapes |-> KernelAnswer({}), properties |-> raising] : raising \in PropertyFaults}

Init ==
    /\ pc = "generate"
    /\ IdleSolid /\ IdleFS /\ IdleDW /\ IdleApp
    /\ GenNotStarted
    /\ \/ /\ ifc_buildings = <<"B1", "B2">>
          /\ \E pl \in Placements :
                /\ Decomposes = [e \in Elements |-> pl[e][1]]
                /\ ContainedInStructure = [e \in Elements |-> pl[e][2]]
          /\ \E h \in Hostings :
                /\ HasOpenings = h.openings /\ HasFillings = h.fillings
                /\ same_object \in ObjectIdentities(h)
          /\ \E fault \in Faults :
                shapes = fault.shapes /\ properties_raise = fault.properties
          /\ unrelated_doors_windows_in_dummy_bce \in BOOLEAN
          /\ no_storeys \in BOOLEAN
       \/ /\ ifc_buildings = <<>>
          /\ Decomposes = [e \in Elements |-> None]
          /\ ContainedInStructure = [e \in Elements |-> None]
          /\ IdleRel
          /\ shapes = [e \in Elements |-> KernelFailure]
          /\ properties_raise = {}
          /\ same_object = FALSE
          /\ unrelated_doors_windows_in_dummy_bce = FALSE
          /\ no_storeys = FALSE

\* a plausible slip: the rooms are exported before the installations
PhaseOrderRoomsFirst ==
    <<"walls", "constructive", "unmapped", "rooms", "installations", "furniture", "storeys">>

\* the loops of one building in program order
PhaseOrder ==
    <<"walls", "constructive", "unmapped", "installations", "rooms", "furniture", "storeys">>

\* what the loop of a phase iterates for a building, as (class, element) pairs; the
\* block for unmapped doors and windows runs once
WorkList(ifc_bldg, phase) ==
    CASE phase = "walls"         -> TypedElements(ifc_bldg, wall_types, 1)
      [] phase = "constructive"  -> TypedElements(ifc_bldg, constructive_types, 1)
      [] phase = "unmapped"      -> <<[ifc_type |-> None, elem |-> None]>>
      [] phase = "installations" -> TypedElements(ifc_bldg, installation_types, 1)
      [] phase = "rooms"         ->
            [k \in 1..Len(rooms_list(ifc_bldg)) |->
                [ifc_type |-> "IfcSpace", elem |-> rooms_list(ifc_bldg)[k]]]
      [] phase = "furniture"     -> TypedElements(ifc_bldg, furniture_types, 1)
      [] phase = "storeys"       ->
            IF no_storeys THEN <<>>
            ELSE [k \in 1..Len(storeys_list(ifc_bldg)) |->
                     [ifc_type |-> "IfcBuildingStorey", elem |-> storeys_list(ifc_bldg)[k]]]

\* the first phase from position k of PhaseOrder on that has something to iterate
RECURSIVE PhaseFrom(_, _)
PhaseFrom(ifc_bldg, k) ==
    IF k > Len(PhaseOrder) THEN "end"
    ELSE IF WorkList(ifc_bldg, PhaseOrder[k]) # <<>> THEN PhaseOrder[k]
    ELSE PhaseFrom(ifc_bldg, k + 1)

PhasePosition(phase) == CHOOSE k \in 1..Len(PhaseOrder) : PhaseOrder[k] = phase

ifc_bldg == ifc_buildings[bldg_i]

\* control after the loop of a phase: the following phase, the next building, the write
AdvanceTo(following) ==
    IF following # "end"
    THEN pc' = following /\ idx' = 1 /\ bldg_i' = bldg_i
    ELSE IF bldg_i < Len(ifc_buildings)
    THEN pc' = "building" /\ idx' = 0 /\ bldg_i' = bldg_i + 1
    ELSE pc' = "write" /\ idx' = 0 /\ bldg_i' = bldg_i

\* control after an iteration of the loop of the phase
Advance(phase) ==
    IF idx < Len(WorkList(ifc_bldg, phase))
    THEN pc' = phase /\ idx' = idx + 1 /\ bldg_i' = bldg_i
    ELSE AdvanceTo(PhaseFrom(ifc_bldg, PhasePosition(phase) + 1))

otherVars == <<solidVars, fsVars, relVars, dwVars, appVars, genInputs>>

\* a plausible slip: without buildings generate returns before the tree is written
BeginGenerateWithoutWrite ==
    /\ pc = "generate"
    /\ \/ /\ ifc_buildings = <<>>
          /\ written' = written
          /\ pc' = "done"
          /\ bldg_i' = bldg_i
       \/ /\ ifc_buildings # <<>>
          /\ written' = written
          /\ pc' = "building"
          /\ bldg_i' = 1
    /\ UNCHANGED <<otherVars, idx, element_gml_ids, exported_elements,
                   embedded_doors_windows, dummy_bce_per_storey, storey_elements,
                   nodes, next_uuid>>

\* lines 849-860: without buildings the document is written at once
BeginGenerate ==
    /\ pc = "generate"
    /\ \/ /\ ifc_buildings = <<>>
          /\ written' = TRUE
          /\ pc' = "done"
          /\ bldg_i' = bldg_i
       \/ /\ ifc_buildings # <<>>
          /\ written' = written
          /\ pc' = "building"
          /\ bldg_i' = 1
    /\ UNCHANGED <<otherVars, idx, element_gml_ids, exported_elements,
                   embedded_doors_windows, dummy_bce_per_storey, storey_elements,
                   nodes, next_uuid>>

\* lines 895-952: the head of the loop over the buildings; an exception of
\* add_properties for the building is caught at lines 925-928 and changes nothing
StartBuilding ==
    /\ pc = "building"
    /\ embedded_doors_windows' = {}
    /\ exported_elements' = {}
    /\ dummy_bce_per_storey' = <<>>
    /\ nodes' = Append(nodes,
          [bldg |-> ifc_bldg, prop |-> "cityObjectMember", feature |-> "Building",
           id |-> Uuid(next_uuid + 1), elem |-> ifc_bldg, bucket |-> None,
           attached |-> TRUE, children |-> <<>>])
    /\ next_uuid' = next_uuid + 1
    /\ pc' = PhaseFrom(ifc_bldg, 1)
    /\ idx' = 1
    /\ UNCHANGED <<otherVars, bldg_i, element_gml_ids, storey_elements, written>>

\* add_properties, lines 168-206, raises for the element
add_properties_raises(elem) == elem \in properties_raise

\* add_properties is called for the element of the iteration (lines 991, 1081, 1277,
\* 1348, 1418, 1484) and for every door and window made a filling (line 312); only the
\* call for the building, lines 924-928, is inside try/except
RaisesIn(elem, doors_windows) ==
    \/ add_properties_raises(elem)
    \/ \E dw \in Range(doors_windows) : add_properties_raises(dw)

\* an exception leaves generate: the loops stop, the tree is not written, and what the
\* iteration had added to the tree and the registries is never used
Abort ==
    /\ pc' = "aborted"
    /\ UNCHANGED <<bldg_i, idx>>

\* a plausible slip: the class element is written before the fillings
EmitElementClassBeforeFillings(phase, prop, feature, item, doors_windows, body, fills) ==
    /\ element_gml_ids' = Put(element_gml_ids, item.elem, Uuid(next_uuid + 1))
    /\ exported_elements' = mark_exported(exported_elements, item.elem, body.polygons)
    /\ embedded_doors_windows' = embedded_doors_windows \cup Range(doors_windows)
    /\ nodes' = Append(nodes,
          [bldg |-> ifc_bldg, prop |-> prop, feature |-> feature,
           id |-> Uuid(next_uuid + 1), elem |-> item.elem, bucket |-> None,
           attached |-> ~node_removed(phase, body.polygons),
           children |-> body.children
                        \o <<[tag |-> "class", text |-> item.ifc_type]>>
                        \o fills.children])
    /\ next_uuid' = fills.drawn

\* what one iteration of an element loop leaves behind, given the body and the fillings
\* it made: the identifier registered, the element marked exported when it has polygons,
\* the doors and windows embedded, and the node, which is no longer a child of the
\* Building when node_removed says so
EmitElement(phase, prop, feature, item, doors_windows, body, fills) ==
    /\ element_gml_ids' = Put(element_gml_ids, item.elem, Uuid(next_uuid + 1))
    /\ exported_elements' = mark_exported(exported_elements, item.elem, body.polygons)
    /\ embedded_doors_windows' = embedded_doors_windows \cup Range(doors_windows)
    /\ nodes' = Append(nodes,
          [bldg |-> ifc_bldg, prop |-> prop, feature |-> feature,
           id |-> Uuid(next_uuid + 1), elem |-> item.elem, bucket |-> None,
           attached |-> ~node_removed(phase, body.polygons),
           children |-> body.children \o fills.children
                        \o <<[tag |-> "class", text |-> item.ifc_type]>>])
    /\ next_uuid' = fills.drawn

\* the fillings follow the body of the element
EmitBody(phase, prop, feature, item, doors_windows, body) ==
    EmitElement(phase, prop, feature, item, doors_windows, body,
                Fillings(doors_windows, 1, body.drawn))

\* the speculative property element and feature, then geometry and appearance
EmitItem(phase, prop, feature, item, doors_windows) ==
    EmitBody(phase, prop, feature, item, doors_windows,
             FeatureBody(item.elem, Uuid(next_uuid + 1), next_uuid + 1))

\* a plausible slip: the kernel's exception is not caught, so generate ends at the
\* element whose shape the kernel cannot make
IterateElementUncaught(phase, prop, feature, item, doors_windows) ==
    IF RaisesIn(item.elem, doors_windows) \/ ~shapes[item.elem].ok
    THEN /\ Abort
         /\ UNCHANGED <<element_gml_ids, exported_elements, embedded_doors_windows,
                        nodes, next_uuid>>
    ELSE /\ EmitItem(phase, prop, feature, item, doors_windows)
         /\ Advance(phase)

\* one iteration of an element loop for the item and the doors and windows its
\* openings hold
IterateElement(phase, prop, feature, item, doors_windows) ==
    IF RaisesIn(item.elem, doors_windows)
    THEN /\ Abort
         /\ UNCHANGED <<element_gml_ids, exported_elements, embedded_doors_windows,
                        nodes, next_uuid>>
    ELSE /\ EmitItem(phase, prop, feature, item, doors_windows)
         /\ Advance(phase)

\* one iteration of an element loop
ProcessElement(phase, prop, feature, hosts_fillings) ==
    /\ pc = phase
    /\ IterateElement(phase, prop, feature, WorkList(ifc_bldg, phase)[idx],
                      IF hosts_fillings
                      THEN get_doors_and_windows_in_element(
                               WorkList(ifc_bldg, phase)[idx].elem)
                      ELSE <<>>)
    /\ UNCHANGED <<otherVars, dummy_bce_per_storey, storey_elements, written>>

\* lines 954-1038
ProcessWall ==
    ProcessElement("walls", "buildingConstructiveElement",
                   "BuildingConstructiveElement", TRUE)

\* lines 1040-1129
ProcessConstructive ==
    ProcessElement("constructive", "buildingConstructiveElement",
                   "BuildingConstructiveElement", TRUE)

\* lines 1241-1311
ProcessInstallation ==
    ProcessElement("installations", "buildingInstallation", "BuildingInstallation", FALSE)

\* lines 1313-1380
ProcessRoom ==
    ProcessElement("rooms", "buildingRoom", "BuildingRoom", FALSE)

\* lines 1382-1452
ProcessFurniture ==
    ProcessElement("furniture", "buildingFurniture", "BuildingFurniture", FALSE)

\* lines 1165-1176: the storeys of the dict doors_windows_by_storey in insertion order,
\* from position i of the unmapped list on
\* StoreyKeys without the membership test of line 1171: one key per door or window
RECURSIVE StoreyKeysPerDoor(_, _, _)
StoreyKeysPerDoor(unmapped, i, keys) ==
    IF i > Len(unmapped) THEN keys
    ELSE LET storey == _find_storey_for_element(unmapped[i])
         IN  StoreyKeysPerDoor(unmapped, i + 1,
                               IF storey # None THEN Append(keys, storey) ELSE keys)

RECURSIVE StoreyKeys(_, _, _)
StoreyKeys(unmapped, i, keys) ==
    IF i > Len(unmapped) THEN keys
    ELSE LET storey == _find_storey_for_element(unmapped[i])
         IN  StoreyKeys(unmapped, i + 1,
                        IF storey # None /\ storey \notin Range(keys)
                        THEN Append(keys, storey) ELSE keys)

\* lines 1185-1208 and 1214-1237: one dummy bucket around its fillings
DummyNodeOf(key, drawn, fills) ==
    [drawn |-> fills.drawn,
     node  |-> [bldg |-> ifc_bldg, prop |-> "buildingConstructiveElement",
                feature |-> "BuildingConstructiveElement", id |-> Uuid(drawn + 1),
                elem |-> None, bucket |-> key, attached |-> TRUE,
                children |-> fills.children
                    \o <<[tag |-> "class", text |-> "DummyBuildingConstructiveElement"]>>]]

DummyNode(key, elements, drawn) ==
    DummyNodeOf(key, drawn, Fillings(elements, 1, drawn + 1))

\* a bucket added to the buckets made before it
WithBucketLast(buckets, one) ==
    [drawn |-> one.drawn, nodes |-> Append(buckets.nodes, one.node)]

\* a plausible slip: a storey's bucket takes only the first door or window of the storey
RECURSIVE OfStoreyFirstOnly(_, _, _)
OfStoreyFirstOnly(unmapped, storey, i) ==
    IF i > Len(unmapped) THEN <<>>
    ELSE IF _find_storey_for_element(unmapped[i]) = storey THEN <<unmapped[i]>>
    ELSE OfStoreyFirstOnly(unmapped, storey, i + 1)

\* the unmapped doors and windows of a storey, in order
RECURSIVE OfStorey(_, _, _)
OfStorey(unmapped, storey, i) ==
    IF i > Len(unmapped) THEN <<>>
    ELSE (IF _find_storey_for_element(unmapped[i]) = storey THEN <<unmapped[i]>> ELSE <<>>)
         \o OfStorey(unmapped, storey, i + 1)

\* lines 1179-1208: the buckets of the first i keys, made after the buckets given
RECURSIVE StoreyBuckets(_, _, _, _)
StoreyBuckets(unmapped, keys, i, buckets) ==
    IF i > Len(keys) THEN buckets
    ELSE StoreyBuckets(unmapped, keys, i + 1,
            WithBucketLast(buckets,
                DummyNode(keys[i], OfStorey(unmapped, keys[i], 1), buckets.drawn)))

\* lines 1212-1237: the fallback bucket follows when a door or window has no storey
WithFallbackBucket(buckets, unmapped_without_storey) ==
    IF unmapped_without_storey # <<>>
    THEN WithBucketLast(buckets,
            DummyNode("__UNMAPPED__", unmapped_without_storey, buckets.drawn))
    ELSE buckets

\* line 1160
NotEmbedded(dw) == dw \notin embedded_doors_windows

\* line 1176
WithoutStorey(dw) == _find_storey_for_element(dw) = None

\* lines 1162-1237 for the unmapped doors and windows
DummyBuckets(unmapped) ==
    WithFallbackBucket(
        StoreyBuckets(unmapped, StoreyKeys(unmapped, 1, <<>>), 1,
                      [drawn |-> next_uuid, nodes |-> <<>>]),
        SelectSeq(unmapped, WithoutStorey))

\* lines 1190 and 1219: the identifiers remembered per bucket key
BucketIds(created) ==
    [k \in {created[n].bucket : n \in 1..Len(created)} |->
        created[CHOOSE n \in 1..Len(created) : created[n].bucket = k].id]

RecordBuckets(buckets) ==
    /\ nodes' = nodes \o buckets.nodes
    /\ dummy_bce_per_storey' = BucketIds(buckets.nodes)
    /\ next_uuid' = buckets.drawn

\* lines 1131-1239
ProcessUnmapped ==
    /\ pc = "unmapped"
    /\ IF /\ Len(building_doors_windows(ifc_bldg)) > 0
          /\ Len(building_doors_windows(ifc_bldg)) - Cardinality(embedded_doors_windows) > 0
          /\ unrelated_doors_windows_in_dummy_bce
          /\ SelectSeq(building_doors_windows(ifc_bldg), NotEmbedded) # <<>>
       THEN IF RaisesIn(None, SelectSeq(building_doors_windows(ifc_bldg), NotEmbedded))
            THEN /\ Abort
                 /\ UNCHANGED <<nodes, dummy_bce_per_storey, next_uuid>>
            ELSE /\ RecordBuckets(
                        DummyBuckets(SelectSeq(building_doors_windows(ifc_bldg),
                                               NotEmbedded)))
                 /\ Advance("unmapped")
       ELSE /\ UNCHANGED <<nodes, dummy_bce_per_storey, next_uuid>>
            /\ Advance("unmapped")
    /\ UNCHANGED <<otherVars, element_gml_ids, exported_elements,
                   embedded_doors_windows, storey_elements, written>>

\* lines 1467-1531: the storey node with its cross-references
EmitStorey(storey, in_storey) ==
    /\ storey_elements' = in_storey
    /\ nodes' = Append(nodes,
          [bldg |-> ifc_bldg, prop |-> "buildingSubdivision", feature |-> "Storey",
           id |-> Uuid(next_uuid + 1), elem |-> storey, bucket |-> None,
           attached |-> TRUE,
           children |-> ElementXlinks(ifc_bldg, in_storey, 1)
                        \o DummyXlink(storey)
                        \o RoomXlinks(ifc_bldg, in_storey)])
    /\ next_uuid' = next_uuid + 1

\* lines 1466-1533: one iteration of the storey loop
ProcessStorey ==
    /\ pc = "storeys"
    /\ IF add_properties_raises(WorkList(ifc_bldg, "storeys")[idx].elem)
       THEN /\ Abort
            /\ UNCHANGED <<storey_elements, nodes, next_uuid>>
       ELSE /\ EmitStorey(WorkList(ifc_bldg, "storeys")[idx].elem,
                          _get_storey_elements(WorkList(ifc_bldg, "storeys")[idx].elem))
            /\ Advance("storeys")
    /\ UNCHANGED <<otherVars, element_gml_ids, exported_elements,
                   embedded_doors_windows, dummy_bce_per_storey, written>>

\* lines 1540-1542
WriteDocument ==
    /\ pc = "write"
    /\ written' = TRUE
    /\ pc' = "done"
    /\ UNCHANGED <<otherVars, bldg_i, idx, element_gml_ids, exported_elements,
                   embedded_doors_windows, dummy_bce_per_storey, storey_elements,
                   nodes, next_uuid>>

Next ==
    \/ BeginGenerate
    \/ StartBuilding
    \/ ProcessWall
    \/ ProcessConstructive
    \/ ProcessUnmapped
    \/ ProcessInstallation
    \/ ProcessRoom
    \/ ProcessFurniture
    \/ ProcessStorey
    \/ WriteDocument

Spec == Init /\ [][Next]_vars

(***************************************************************************)
(* Properties of generate.                                                 *)
(***************************************************************************)
NodeIndices == 1..Len(nodes)

StoreyNodes == {s \in NodeIndices : nodes[s].feature = "Storey"}

\* the feature nodes made for an element in one of the element loops
ElementNodes ==
    {m \in NodeIndices :
        /\ nodes[m].elem # None
        /\ nodes[m].feature \in {"BuildingConstructiveElement", "BuildingInstallation",
                                 "BuildingRoom", "BuildingFurniture"}}

Xlinks(s) ==
    {nodes[s].children[c] : c \in {d \in 1..Len(nodes[s].children) :
                                      nodes[s].children[d].tag = "xlink"}}

\* geometry extraction of the element failed or returned no polygons
YieldsNoPolygons(e) == get_geometry_with_surface_ids(shapes[e], 0).polygons = <<>>

\* C1: an element whose geometry extraction failed or returned no polygons is never the
\* target of a cross-reference written into a storey, and while the building of the
\* storey is the one being converted every element a cross-reference of the storey
\* targets is in exported_elements.
C1_FailedElementNeverXlinkTarget ==
    \A s \in StoreyNodes : \A x \in Xlinks(s) : \A m \in ElementNodes :
        nodes[m].id = x.href =>
            /\ ~YieldsNoPolygons(nodes[m].elem)
            /\ nodes[s].bldg = ifc_bldg => nodes[m].elem \in exported_elements

\* a storey that has cross-references was written although an element of the storey had
\* been attempted without result
C1_Witness ==
    \E s \in StoreyNodes : \E m \in ElementNodes :
        /\ m < s
        /\ nodes[m].bldg = nodes[s].bldg
        /\ nodes[m].elem \in _get_storey_elements(nodes[s].elem)
        /\ nodes[m].elem \in DOMAIN element_gml_ids
        /\ YieldsNoPolygons(nodes[m].elem)
        /\ Xlinks(s) # {}

\* C2: in the written document every cross-reference of a storey names the gml:id of a
\* feature node that is still attached to the building of that storey.
C2_NoDanglingXlink ==
    written =>
        \A s \in StoreyNodes : \A x \in Xlinks(s) :
            \E m \in NodeIndices :
                /\ nodes[m].id = x.href
                /\ nodes[m].attached
                /\ nodes[m].bldg = nodes[s].bldg
                /\ nodes[m].feature \notin {"Building", "Storey"}

\* the document is written, a storey links to an element node and to a dummy bucket,
\* and a speculative node of the same building was removed
C2_Witness ==
    /\ written
    /\ \E s \in StoreyNodes :
          /\ \E x \in Xlinks(s) : \E m \in ElementNodes : nodes[m].id = x.href
          /\ \E x \in Xlinks(s) : \E m \in NodeIndices :
                nodes[m].id = x.href /\ nodes[m].bucket # None
          /\ \E m \in ElementNodes : nodes[m].bldg = nodes[s].bldg /\ ~nodes[m].attached

\* C3: in the written document no feature node is left for an element of the wall,
\* constructive, installation, room or furniture loop whose geometry extraction yields
\* no polygons, and no such element of the last building is in exported_elements.
C3_EmptyGeometryNodeRemoved ==
    written =>
        \A m \in ElementNodes :
            YieldsNoPolygons(nodes[m].elem) =>
                /\ ~nodes[m].attached
                /\ nodes[m].elem \notin exported_elements

\* the aggregation/nesting parents of an element, followed upwards k times at most
RECURSIVE ParentsAbove(_, _)
ParentsAbove(e, k) ==
    IF k = 0 \/ Decomposes[e] = None THEN {}
    ELSE {Decomposes[e]} \cup ParentsAbove(Decomposes[e], k - 1)

\* C6: the set _get_storey_elements returns for a storey is the union of the elements
\* below the storey in the aggregation/nesting hierarchy and the elements the storey's
\* containment relations name.
C6_StoreyElementsIsUnion ==
    (nodes # <<>> /\ nodes[Len(nodes)].feature = "Storey") =>
        LET storey == nodes[Len(nodes)].elem
        IN  storey_elements =
                {e \in Elements : storey \in ParentsAbove(e, Cardinality(Elements))}
                \cup {e \in Elements : ContainedInStructure[e] = storey}

\* the storey processed last has an element by containment only and one by aggregation
\* only, both in the result
C6_Witness ==
    /\ nodes # <<>>
    /\ nodes[Len(nodes)].feature = "Storey"
    /\ LET storey == nodes[Len(nodes)].elem
       IN  /\ \E e \in storey_elements :
                /\ ContainedInStructure[e] = storey
                /\ storey \notin ParentsAbove(e, Cardinality(Elements))
           /\ \E e \in storey_elements :
                /\ ContainedInStructure[e] # storey
                /\ storey \in ParentsAbove(e, Cardinality(Elements))

(***************************************************************************)
(* Dummy buckets for the doors and windows no host consumed.               *)
(***************************************************************************)
\* the walls and other constructive elements of a building: the hosts of fillings
HostsOf(b) ==
    {item.elem : item \in Range(TypedElements(b, wall_types, 1))
                         \cup Range(TypedElements(b, constructive_types, 1))}

\* the doors and windows of a building that fill no opening of any of its hosts
Unconsumed(b) ==
    {dw \in Range(building_doors_windows(b)) :
        \A host \in HostsOf(b) : dw \notin TwoHopFillings(host)}

\* the dummy buckets of a building, as indices of nodes
BucketsOf(b) == {n \in NodeIndices : nodes[n].bldg = b /\ nodes[n].bucket # None}

BucketsWithKey(b, key) == {n \in BucketsOf(b) : nodes[n].bucket = key}

ResolvedStoreys(b) == {_find_storey_for_element(dw) : dw \in Unconsumed(b)} \ {None}

\* C11: with bucket mode on, a building with unconsumed doors or windows gets exactly one
\* dummy bucket per distinct storey they resolve to, and exactly one fallback bucket if
\* and only if one of them resolves to no storey; with bucket mode off, or without an
\* unconsumed door or window, the building gets no bucket.
C11_OneBucketPerStoreyAndOneFallback ==
    written =>
        \A b \in Range(ifc_buildings) :
            IF unrelated_doors_windows_in_dummy_bce /\ Unconsumed(b) # {}
            THEN /\ \A storey \in ResolvedStoreys(b) :
                        Cardinality(BucketsWithKey(b, storey)) = 1
                 /\ Cardinality(BucketsWithKey(b, "__UNMAPPED__")) =
                        (IF \E dw \in Unconsumed(b) : _find_storey_for_element(dw) = None
                         THEN 1 ELSE 0)
                 /\ \A n \in BucketsOf(b) :
                        nodes[n].bucket \in ResolvedStoreys(b) \cup {"__UNMAPPED__"}
            ELSE BucketsOf(b) = {}

\* the door and the window of B1 are unconsumed in storey S1 and share its one bucket
C11_Witness ==
    /\ written
    /\ unrelated_doors_windows_in_dummy_bce
    /\ Unconsumed("B1") = {"D1", "WN1"}
    /\ ResolvedStoreys("B1") = {"S1"}
    /\ Cardinality(BucketsOf("B1")) = 1

(***************************************************************************)
(* Doors and windows in the document.                                      *)
(***************************************************************************)
DoorsAndWindows == {e \in Elements : is_a(e, "IfcDoor") \/ is_a(e, "IfcWindow")}

\* the fillings of a feature node
FillingsOf(n) ==
    {nodes[n].children[c] : c \in {d \in 1..Len(nodes[n].children) :
                                      nodes[n].children[d].tag = "filling"}}

\* the identifiers written inside a filling: those of its geometry and of its surfaces
IdsWithin(filling) ==
    UNION {{filling.children[c].id} \cup Range(filling.children[c].surface_ids) :
            c \in {d \in 1..Len(filling.children) :
                      filling.children[d].tag \in {"lod3Solid", "lod3MultiSurface"}}}

\* C12: no storey writes a cross-reference to a door or window: doors and windows get no
\* feature node and no registered identifier of their own, they appear only as fillings
\* of a host or of a dummy bucket, and every cross-reference of a storey targets a
\* feature that does not stand for a door or window and nothing inside a filling.
C12_NoStoreyXlinkToDoorOrWindow ==
    /\ \A dw \in DoorsAndWindows : dw \notin DOMAIN element_gml_ids
    /\ \A n \in NodeIndices : nodes[n].elem \notin DoorsAndWindows
    /\ \A s \in StoreyNodes : \A x \in Xlinks(s) :
          /\ \A n \in NodeIndices : \A filling \in FillingsOf(n) :
                x.href \notin IdsWithin(filling)
          /\ \E n \in NodeIndices :
                nodes[n].id = x.href /\ nodes[n].feature # "Storey"

\* storey S1 cross-references the wall W1, which carries the door D1 as a filling with
\* geometry
C12_Witness ==
    \E s \in StoreyNodes : \E m \in ElementNodes :
        /\ nodes[s].elem = "S1"
        /\ nodes[m].elem = "W1"
        /\ \E x \in Xlinks(s) : x.href = nodes[m].id
        /\ \E filling \in FillingsOf(m) :
              filling.elem = "D1" /\ IdsWithin(filling) # {}

(***************************************************************************)
(* The order of the child features of a building.                          *)
(***************************************************************************)
\* the pipeline state a feature node comes from: 0 the building with its metadata, 1 the
\* walls, 2 the remaining constructive elements, 3 the dummy buckets, 4 the installations,
\* 5 the rooms, 6 the furniture, 7 the storeys
StateOf(n) ==
    CASE nodes[n].feature = "Building"             -> 0
      [] nodes[n].feature = "BuildingConstructiveElement" ->
            (IF nodes[n].bucket # None THEN 3
             ELSE IF ifc_class(nodes[n].elem) \in {"IfcWall", "IfcWallStandardCase"} THEN 1
             ELSE 2)
      [] nodes[n].feature = "BuildingInstallation" -> 4
      [] nodes[n].feature = "BuildingRoom"         -> 5
      [] nodes[n].feature = "BuildingFurniture"    -> 6
      [] nodes[n].feature = "Storey"               -> 7

\* the position of a building in the list of buildings
BuildingPosition(b) == CHOOSE k \in 1..Len(ifc_buildings) : ifc_buildings[k] = b

\* no feature of a later state, or of a later building, precedes one of an earlier state
FixedPipelineOrder ==
    \A m, n \in NodeIndices :
        m < n =>
            \/ BuildingPosition(nodes[m].bldg) < BuildingPosition(nodes[n].bldg)
            \/ /\ nodes[m].bldg = nodes[n].bldg
               /\ StateOf(m) <= StateOf(n)

\* what a state has to work on for a building; the dummy buckets are made of the
\* unconsumed doors and windows when bucket mode is on
HasElements(b, state) ==
    CASE state = 1 -> TypedElements(b, <<"IfcWall", "IfcWallStandardCase">>, 1) # <<>>
      [] state = 2 -> TypedElements(b, constructive_types, 1) # <<>>
      [] state = 3 -> unrelated_doors_windows_in_dummy_bce /\ Unconsumed(b) # {}
      [] state = 4 -> TypedElements(b, installation_types, 1) # <<>>
      [] state = 5 -> rooms_list(b) # <<>>
      [] state = 6 -> TypedElements(b, furniture_types, 1) # <<>>
      [] state = 7 -> storeys_list(b) # <<>>

\* the state made a feature for the building (whether or not the feature stayed)
Entered(b, state) == \E n \in NodeIndices : nodes[n].bldg = b /\ StateOf(n) = state

\* C13 as stated: the child features of every building appear in the fixed pipeline
\* order, and a state is skipped only when it has no elements.
C13_FixedOrderSkippedOnlyWhenEmpty ==
    /\ FixedPipelineOrder
    /\ written =>
          \A b \in Range(ifc_buildings) : \A state \in 1..7 :
              Entered(b, state) <=> HasElements(b, state)

\* C13, amended: the child features of every building appear in the fixed pipeline
\* order; a state is skipped only when it has no elements, and the storey state also
\* when storey export is suppressed.
C13_FixedOrderSkippedWhenEmptyOrSuppressed ==
    /\ FixedPipelineOrder
    /\ written =>
          \A b \in Range(ifc_buildings) : \A state \in 1..7 :
              Entered(b, state) <=>
                  /\ HasElements(b, state)
                  /\ state = 7 => ~no_storeys

\* building B1 went through every state and B2, which has a wall and a storey only,
\* followed
C13_Witness ==
    /\ written
    /\ \A state \in 1..7 : Entered("B1", state)
    /\ \A state \in 1..7 : Entered("B2", state) <=> state \in {1, 7}

(***************************************************************************)
(* The registries at the start of a building.                              *)
(***************************************************************************)
\* the head of the loop over the buildings has just run: the Building feature is the
\* newest node and no element of the building has been processed
BuildingJustStarted ==
    /\ nodes # <<>>
    /\ nodes[Len(nodes)].feature = "Building"
    /\ pc \notin {"generate", "building"}

\* C14: at the start of the processing of each building element_gml_ids and
\* exported_elements are both empty, with nothing left over from a previous building.
C14_RegistriesEmptyAtBuildingStart ==
    BuildingJustStarted =>
        /\ element_gml_ids = <<>>
        /\ exported_elements = {}

(***************************************************************************)
(* A model without a building.                                             *)
(***************************************************************************)
\* C15: when the model has no building, generate writes a document that holds the root
\* node and no building member, and stops there: no loop runs, nothing is registered.
C15_NoBuildingStillWritesRootOnly ==
    (ifc_buildings = <<>> /\ pc # "generate") =>
        /\ written
        /\ pc = "done"
        /\ nodes = <<>>
        /\ element_gml_ids = <<>>
        /\ exported_elements = {}
        /\ next_uuid = 0

\* the run on a model without a building has ended
C15_Witness == ifc_buildings = <<>> /\ pc = "done" /\ written

(***************************************************************************)
(* Failures of the geometry kernel.                                        *)
(***************************************************************************)
\* the node carries a geometry of its own
HasGeometry(n) ==
    \E c \in 1..Len(nodes[n].children) :
        nodes[n].children[c].tag \in {"lod3Solid", "lod3MultiSurface"}

\* the elements the element loops of a building iterate
LoopElements(b) ==
    {item.elem : item \in Range(TypedElements(b, wall_types, 1))
                         \cup Range(TypedElements(b, constructive_types, 1))
                         \cup Range(TypedElements(b, installation_types, 1))
                         \cup Range(TypedElements(b, furniture_types, 1))}
    \cup Range(rooms_list(b))

\* a failed element has a feature without geometry and is not marked exported; an
\* element with polygons has its geometry, stays in the building and is marked exported;
\* the run ends with the document written and every element of every loop visited
FailureStaysWithItsElement ==
    /\ \A m \in ElementNodes :
          IF shapes[nodes[m].elem] = KernelFailure
          THEN /\ ~HasGeometry(m)
               /\ nodes[m].bldg = ifc_bldg => nodes[m].elem \notin exported_elements
          ELSE ~YieldsNoPolygons(nodes[m].elem) =>
                  /\ HasGeometry(m)
                  /\ nodes[m].attached
                  /\ nodes[m].bldg = ifc_bldg => nodes[m].elem \in exported_elements
    /\ pc \in {"write", "done"} =>
          /\ pc = "done" => written
          /\ \A b \in Range(ifc_buildings) : \A e \in LoopElements(b) :
                \E m \in ElementNodes : nodes[m].elem = e /\ nodes[m].bldg = b

\* C16: a failure of the geometry kernel for one element becomes "no geometry" for that
\* element only: its feature gets no geometry and it is not marked exported, the run is
\* not aborted by it, every sibling that has geometry is emitted with it and marked
\* exported, and the run ends with the document written.
C16_KernelFailureIsNoGeometryForThatElementOnly ==
    /\ FailureStaysWithItsElement
    /\ properties_raise = {} => pc # "aborted"

\* the kernel failed for the space SP1 only; the wall, the slab, the covering and the
\* furniture of the same building were emitted with geometry and the document written
C16_Witness ==
    /\ written
    /\ shapes["SP1"] = KernelFailure
    /\ \E m \in ElementNodes : nodes[m].elem = "SP1" /\ ~HasGeometry(m)
    /\ \A e \in {"W1", "SL1", "CV1", "FU1"} :
          \E m \in ElementNodes :
              nodes[m].elem = e /\ HasGeometry(m) /\ nodes[m].attached

(***************************************************************************)
(* Failures in the other sub-steps of an element.                          *)
(***************************************************************************)
\* C17: a failure raised in a sub-step for one element (geometry extraction, appearance
\* emission, property emission, opening resolution) never aborts the run.
C17_SubStepFailureNeverAbortsRun == pc # "aborted"

(***************************************************************************)
(* The class element of a feature that carries fillings.                   *)
(***************************************************************************)
\* walls, other constructive elements and dummy buckets
FillingCarriers == {n \in NodeIndices : nodes[n].feature = "BuildingConstructiveElement"}

ChildTags(n) == [c \in 1..Len(nodes[n].children) |-> nodes[n].children[c].tag]

\* C18: in every feature that carries fillings (wall, other constructive element, dummy
\* bucket) the class tag is the last child: it is written once, after every filling,
\* after the geometry and after the appearance.
C18_ClassTagIsLastChild ==
    \A n \in FillingCarriers :
        /\ nodes[n].children # <<>>
        /\ \A c \in 1..Len(nodes[n].children) :
              ChildTags(n)[c] = "class" <=> c = Len(nodes[n].children)

\* the wall W1 has a geometry, the door D1 as a filling and then its class; a dummy
\* bucket has the window WN1 as a filling and then its class
C18_Witness ==
    /\ \E n \in FillingCarriers :
          /\ nodes[n].elem = "W1"
          /\ HasGeometry(n)
          /\ \E filling \in FillingsOf(n) : filling.elem = "D1"
          /\ ChildTags(n)[Len(nodes[n].children)] = "class"
    /\ \E n \in FillingCarriers :
          /\ nodes[n].bucket # None
          /\ \E filling \in FillingsOf(n) : filling.elem = "WN1"
          /\ ChildTags(n)[Len(nodes[n].children)] = "class"

(***************************************************************************)
(* Embedded openings of constructive elements and installations.           *)
(***************************************************************************)
\* the features made in the constructive state (walls included) and the installation
\* state
HostFeatures ==
    {m \in ElementNodes :
        nodes[m].feature \in {"BuildingConstructiveElement", "BuildingInstallation"}}

\* C19: for every element processed in the constructive state and in the installation
\* state the doors and windows the resolver finds are emitted as fillings of its feature
\* and recorded as consumed.
C19_ResolvedOpeningsEmbeddedAndConsumed ==
    \A m \in HostFeatures :
        /\ {filling.elem : filling \in FillingsOf(m)} =
              Range(get_doors_and_windows_in_element(nodes[m].elem))
        /\ nodes[m].bldg = ifc_bldg =>
              Range(get_doors_and_windows_in_element(nodes[m].elem))
                  \subseteq embedded_doors_windows

(***************************************************************************)
(* Where the unconsumed doors and windows end.                             *)
(***************************************************************************)
\* the places (bucket, child position) of a building where the door or window is a filling
PlacesInBuckets(b, dw) ==
    UNION {{<<n, c>> : c \in {d \in 1..Len(nodes[n].children) :
                                /\ nodes[n].children[d].tag = "filling"
                                /\ nodes[n].children[d].elem = dw}} :
            n \in BucketsOf(b)}

\* the key of the bucket a door or window belongs in
BucketKeyFor(dw) ==
    IF _find_storey_for_element(dw) = None THEN "__UNMAPPED__"
    ELSE _find_storey_for_element(dw)

\* C20: with bucket mode on, every door or window of a building that no host consumed is
\* a filling of exactly one bucket of the building, the bucket of the storey it resolves
\* to or else the fallback bucket; none is dropped and none is placed twice.
C20_UnconsumedPlacedInExactlyOneBucket ==
    (written /\ unrelated_doors_windows_in_dummy_bce) =>
        \A b \in Range(ifc_buildings) : \A dw \in Unconsumed(b) :
            /\ Cardinality(PlacesInBuckets(b, dw)) = 1
            /\ \A place \in PlacesInBuckets(b, dw) :
                  nodes[place[1]].bucket = BucketKeyFor(dw)

\* the door D1 is in the bucket of storey S1 and the window WN1, which resolves to no
\* storey, in the fallback bucket
C20_Witness ==
    /\ written
    /\ unrelated_doors_windows_in_dummy_bce
    /\ Unconsumed("B1") = {"D1", "WN1"}
    /\ \E place \in PlacesInBuckets("B1", "D1") : nodes[place[1]].bucket = "S1"
    /\ \E place \in PlacesInBuckets("B1", "WN1") : nodes[place[1]].bucket = "__UNMAPPED__"

(***************************************************************************)
(* SpecStorey: _find_storey_for_element, one step per call.  The relations *)
(* of three elements vary freely, cycles of the aggregation relation       *)
(* included; a recursion that does not end stops at the recursion limit.   *)
(***************************************************************************)
\* the elements whose relations vary
StoreyProbes == {"SL1", "CV1", "FU1"}

\* the RelatingObject of an element's aggregation or nesting relation
ParentChoices == {None, "S1", "B1"} \cup StoreyProbes

\* the RelatingStructure of an element's containment relation
StructureChoices == {None, "S3", "B1"}

\* the recursion limit of the interpreter, in calls
MaxCalls == 4

\* a plausible slip: the aggregation parent is looked at before the containment
find_storey_parent_first(element) ==
    LET structure == ContainedInStructure[element]
        parent    == Decomposes[element]
    IN  IF parent # None /\ is_a(parent, "IfcBuildingStorey")
        THEN [returns |-> TRUE, value |-> parent]
        ELSE IF structure # None /\ is_a(structure, "IfcBuildingStorey")
        THEN [returns |-> TRUE, value |-> structure]
        ELSE IF parent = None THEN [returns |-> TRUE, value |-> None]
        ELSE [returns |-> FALSE, value |-> parent]

\* a plausible slip: the recursive call is made for the element instead of its parent
find_storey_same_element(element) ==
    LET structure == ContainedInStructure[element]
        parent    == Decomposes[element]
    IN  IF structure # None /\ is_a(structure, "IfcBuildingStorey")
        THEN [returns |-> TRUE, value |-> structure]
        ELSE IF /\ structure # None /\ is_a(structure, "IfcBuilding")
                /\ parent # None /\ is_a(parent, "IfcBuildingStorey")
        THEN [returns |-> TRUE, value |-> parent]
        ELSE IF parent = None THEN [returns |-> TRUE, value |-> None]
        ELSE IF is_a(parent, "IfcBuildingStorey") THEN [returns |-> TRUE, value |-> parent]
        ELSE [returns |-> FALSE, value |-> element]

\* lines 1591-1618, the body of one call: either the call returns a value, or it makes
\* the recursive call of line 1616 for the value
find_storey_in_call(element) ==
    LET structure == ContainedInStructure[element]
        parent    == Decomposes[element]
    IN  IF structure # None /\ is_a(structure, "IfcBuildingStorey")
        THEN [returns |-> TRUE, value |-> structure]
        ELSE IF /\ structure # None /\ is_a(structure, "IfcBuilding")
                /\ parent # None /\ is_a(parent, "IfcBuildingStorey")
        THEN [returns |-> TRUE, value |-> parent]
        ELSE IF parent = None THEN [returns |-> TRUE, value |-> None]
        ELSE IF is_a(parent, "IfcBuildingStorey") THEN [returns |-> TRUE, value |-> parent]
        ELSE [returns |-> FALSE, value |-> parent]

InitStorey ==
    /\ pc = "find"
    /\ IdleSolid /\ IdleRel /\ IdleDW /\ IdleApp
    /\ ifc_buildings = <<>>
    /\ \E parents \in [StoreyProbes -> ParentChoices] :
          Decomposes = [e \in Elements |->
                          IF e \in StoreyProbes THEN parents[e] ELSE None]
    /\ \E structures \in [StoreyProbes -> StructureChoices] :
          ContainedInStructure = [e \in Elements |->
                                    IF e \in StoreyProbes THEN structures[e] ELSE None]
    /\ shapes = [e \in Elements |-> KernelFailure]
    /\ properties_raise = {}
    /\ same_object = FALSE
    /\ unrelated_doors_windows_in_dummy_bce = FALSE
    /\ no_storeys = FALSE
    /\ GenNotStarted
    /\ fs_arg \in StoreyProbes
    /\ fs_element = fs_arg
    /\ fs_calls = 0
    /\ fs_result = None

storeyRest == <<solidVars, relVars, dwVars, appVars, genVars, fs_arg>>

\* lines 1596-1597, 1604-1605, 1612-1613, 1618: the call returns
ReturnStorey ==
    /\ pc = "find"
    /\ find_storey_in_call(fs_element).returns
    /\ fs_result' = find_storey_in_call(fs_element).value
    /\ pc' = "returned"
    /\ UNCHANGED <<storeyRest, fs_element, fs_calls>>

\* line 1616: the call for the parent
RecurseIntoParent ==
    /\ pc = "find"
    /\ ~find_storey_in_call(fs_element).returns
    /\ fs_calls < MaxCalls
    /\ fs_element' = find_storey_in_call(fs_element).value
    /\ fs_calls' = fs_calls + 1
    /\ UNCHANGED <<storeyRest, pc, fs_result>>

\* line 1616 at the recursion limit: RecursionError
RecursionLimit ==
    /\ pc = "find"
    /\ ~find_storey_in_call(fs_element).returns
    /\ fs_calls = MaxCalls
    /\ pc' = "overflow"
    /\ UNCHANGED <<storeyRest, fs_element, fs_calls, fs_result>>

NextStorey == ReturnStorey \/ RecurseIntoParent \/ RecursionLimit

SpecStorey == InitStorey /\ [][NextStorey]_vars

\* a call that can take a step takes it
SpecStoreyFair == InitStorey /\ [][NextStorey]_vars /\ WF_vars(NextStorey)

\* the aggregation chain above e comes back to an element already met
RECURSIVE Cyclic(_, _)
Cyclic(e, seen) ==
    /\ Decomposes[e] # None
    /\ \/ Decomposes[e] \in seen
       \/ Cyclic(Decomposes[e], seen \cup {Decomposes[e]})

Acyclic(e) == ~Cyclic(e, {e})

\* the number of aggregation ancestors of e
RECURSIVE HierarchyDepth(_, _)
HierarchyDepth(e, seen) ==
    IF Decomposes[e] = None \/ Decomposes[e] \in seen THEN 0
    ELSE 1 + HierarchyDepth(Decomposes[e], seen \cup {Decomposes[e]})

\* e and its aggregation ancestors
RECURSIVE SelfAndAncestors(_, _)
SelfAndAncestors(e, seen) ==
    IF Decomposes[e] = None \/ Decomposes[e] \in seen THEN {e}
    ELSE {e} \cup SelfAndAncestors(Decomposes[e], seen \cup {Decomposes[e]})

IsStorey(x) == x # None /\ is_a(x, "IfcBuildingStorey")

\* neither a containment relation nor an aggregation relation on the way up names a storey
NoStoreyAbove(e) ==
    \A x \in SelfAndAncestors(e, {e}) :
        ~IsStorey(x) /\ ~IsStorey(ContainedInStructure[x]) /\ ~IsStorey(Decomposes[x])

BoundedByHierarchy ==
    Acyclic(fs_arg) =>
        /\ fs_calls <= HierarchyDepth(fs_arg, {fs_arg})
        /\ pc # "overflow"
        /\ (pc = "returned" /\ NoStoreyAbove(fs_arg)) => fs_result = None

\* C21: for an element whose aggregation/nesting parent relation is acyclic,
\* _find_storey_for_element terminates with at most as many recursive calls as the
\* aggregation hierarchy above the element is deep, and it returns no storey when neither
\* the containment path nor the aggregation path reaches a storey.
C21_FindStoreyTerminatesWithinHierarchyDepth ==
    /\ []BoundedByHierarchy
    /\ <>(Acyclic(fs_arg) => pc = "returned")

\* the furniture hangs below the covering, the covering below the slab, the slab below
\* nothing: the third call returned no storey
C21_Witness ==
    /\ pc = "returned"
    /\ Acyclic(fs_arg)
    /\ fs_calls = 2
    /\ NoStoreyAbove(fs_arg)
    /\ fs_result = None

\* what an element names by itself: the storey of its containment, else the storey that
\* is its parent
NamedStorey(x) ==
    IF IsStorey(ContainedInStructure[x]) THEN ContainedInStructure[x]
    ELSE IF IsStorey(Decomposes[x]) THEN Decomposes[x]
    ELSE None

\* the resolution order: what the element names, else what the resolution of its parent
\* gives
RECURSIVE ResolvedStorey(_, _)
ResolvedStorey(x, fuel) ==
    IF NamedStorey(x) # None THEN NamedStorey(x)
    ELSE IF Decomposes[x] = None \/ fuel = 0 THEN None
    ELSE ResolvedStorey(Decomposes[x], fuel - 1)

\* C22: _find_storey_for_element returns nothing or a storey, resolved in this order: the
\* storey of the element's own containment, else the storey that is its aggregation or
\* nesting parent, else the resolution of that parent; an element directly contained in
\* storey S resolves to S.
C22_FindStoreyResolutionOrder ==
    pc = "returned" =>
        /\ fs_result = None \/ IsStorey(fs_result)
        /\ IsStorey(ContainedInStructure[fs_arg]) =>
              fs_result = ContainedInStructure[fs_arg]
        /\ fs_result = ResolvedStorey(fs_arg, Cardinality(Elements))

\* the slab is contained in storey S3 and aggregated by storey S1: the containment wins
C22_Witness ==
    /\ pc = "returned"
    /\ fs_arg = "SL1"
    /\ ContainedInStructure["SL1"] = "S3"
    /\ Decomposes["SL1"] = "S1"
    /\ fs_result = "S3"

(***************************************************************************)
(* Primary path and fallback path of add_appearance.                       *)
(***************************************************************************)
AppearanceDone == pc = "appearance" /\ ~no_appearances

\* C23: when at least one triangle has a material from the kernel, the appearance groups
\* come from the per-triangle materials only: the materials of the element (the fallback
\* path) are not used and none of them is merged in; the fallback path is used only when
\* no triangle has a kernel material.
C23_FallbackOnlyWithoutKernelMaterial ==
    AppearanceDone =>
        IF FacesWithMaterial # {}
        THEN /\ appearance.path = "primary"
             /\ Len(appearance.materials) =
                    Cardinality({KeyOfFace(f) : f \in FacesWithMaterial})
             /\ \A i \in 1..Len(appearance.materials) :
                    FacesWithKey(GroupKey(appearance.materials[i])) # {}
        ELSE /\ appearance.path # "primary"
             /\ appearance.path = "fallback" <=> element_materials # <<>>

\* the element has a material of its own and a triangle with a kernel material: the
\* appearance is the primary one, with the kernel's colour only
C23_Witness ==
    /\ AppearanceDone
    /\ element_materials # <<>>
    /\ FacesWithMaterial # {}
    /\ appearance.path = "primary"
    /\ Len(appearance.materials) = 1
    /\ appearance.materials[1].diffuseColor # element_materials[1].color

(***************************************************************************)
(* SpecMat: get_element_materials_with_faces for an element without styled *)
(* items whose one material association relates a layer set (or the usage  *)
(* of one).  Colours are (r, g, b) in units of 10^-7.                      *)
(***************************************************************************)
MaxLayers == 3

\* _get_material_color of a layer's material: no colour, red, nearly the same red, green
LayerColours ==
    {<<>>, <<10000000, 0, 0>>, <<10000004, 0, 0>>, <<0, 10000000, 0>>}

\* line 597
color_key(color) == <<round6(color[1]), round6(color[2]), round6(color[3])>>

\* add_color_if_unique, lines 595-600, with face_indices None
add_color_if_unique(materials_with_faces, color) ==
    IF \E i \in 1..Len(materials_with_faces) :
          color_key(materials_with_faces[i].color) = color_key(color)
    THEN materials_with_faces
    ELSE Append(materials_with_faces, [color |-> color, face_indices |-> <<>>])

\* lines 667-675: the loop over the layers from position i on
RECURSIVE CollectLayers(_, _, _)
CollectLayers(layers, i, materials_with_faces) ==
    IF i > Len(layers) THEN materials_with_faces
    ELSE CollectLayers(layers, i + 1,
            IF layers[i] # <<>>
            THEN add_color_if_unique(materials_with_faces, layers[i])
            ELSE materials_with_faces)

\* lines 582-693 for the layered material: the colours collected; when there is none,
\* get_element_color (lines 687-689) finds none either, as the first layer has none
get_element_materials_with_faces(layers) == CollectLayers(layers, 1, <<>>)

InitMat ==
    /\ pc = "collect"
    /\ IdleSolid /\ IdleFS /\ IdleRel /\ IdleDW /\ IdleGen
    /\ shape = KernelFailure
    /\ no_appearances = FALSE
    /\ material_layers \in SeqsUpTo(LayerColours, MaxLayers)
    /\ element_materials = <<>>
    /\ geometry = GeometryFailed
    /\ appearance = NoAppearance

CollectMaterials ==
    /\ pc = "collect"
    /\ element_materials' = get_element_materials_with_faces(material_layers)
    /\ pc' = "collected"
    /\ UNCHANGED <<solidVars, fsVars, relVars, dwVars, shape, no_appearances,
                   material_layers, geometry, appearance, genVars>>

NextMat == CollectMaterials

SpecMat == InitMat /\ [][NextMat]_vars

\* C24: an element with a layer-set material contributes only the colour of the first
\* layer's material to the result of get_element_materials_with_faces; the colours of
\* the second and later layers are not collected.
C24_OnlyFirstLayerColour ==
    pc = "collected" =>
        \A i \in 1..Len(element_materials) :
            /\ material_layers # <<>>
            /\ element_materials[i].color = material_layers[1]

(***************************************************************************)
(* The material of a triangle.                                             *)
(***************************************************************************)
\* the material index of the triangle at position p is a position of the kernel's table
ValidMaterialIndex(p) ==
    /\ p <= Len(shape.material_ids)
    /\ shape.material_ids[p] >= 0
    /\ shape.material_ids[p] < Len(shape.materials)

\* the entry of the kernel's table at the triangle's index, as (r, g, b, transparency);
\* nothing when the entry has no colour
TableEntry(p) ==
    LET mat == shape.materials[shape.material_ids[p] + 1]
    IN  IF mat.diffuse = <<>> THEN <<>>
        ELSE mat.diffuse \o <<IF mat.transparency > 0 THEN mat.transparency ELSE 0>>

\* C25: the material of every triangle is the entry of the kernel's material table at the
\* triangle's material index when the index is a position of the table; a triangle
\* without index, or with an index that is negative or past the end of the table, gets no
\* material, and such an index never loses the geometry of the element.
C25_MaterialIsTableEntryAtValidIndex ==
    (pc # "extract" /\ shape.ok) =>
        /\ ~geometry.failed
        /\ Len(geometry.face_materials) = shape.n_faces
        /\ \A p \in 1..Len(geometry.face_materials) :
              geometry.face_materials[p] =
                  (IF ValidMaterialIndex(p) THEN TableEntry(p) ELSE <<>>)

(***************************************************************************)
(* The doors and windows recorded as consumed.                             *)
(***************************************************************************)
\* C26: every door or window recorded as consumed while the hosts of a building are
\* iterated is, in the document, a filling of a feature that is attached to that
\* building, also when its host has no geometry.
C26_ConsumedIsFillingOfAttachedFeature ==
    pc \notin {"generate", "building", "aborted"} =>
        \A dw \in embedded_doors_windows :
            \E n \in NodeIndices :
                /\ nodes[n].bldg = ifc_bldg
                /\ nodes[n].attached
                /\ \E filling \in FillingsOf(n) : filling.elem = dw

(***************************************************************************)
(* The cross-references of a storey, counted.                              *)
(***************************************************************************)
\* the child positions of storey node s that hold a cross-reference to the id
XlinkPositions(s, id) ==
    {c \in 1..Len(nodes[s].children) :
        nodes[s].children[c].tag = "xlink" /\ nodes[s].children[c].href = id}

\* C27: a storey feature holds at most one cross-reference to any emitted element,
\* also for an element whose kind specialises another listed kind.
C27_AtMostOneXlinkPerElement ==
    \A s \in StoreyNodes : \A m \in ElementNodes :
        Cardinality(XlinkPositions(s, nodes[m].id)) <= 1

(***************************************************************************)
(* The gml:id attributes of the document.                                  *)
(***************************************************************************)
\* the gml:id attributes a child element carries itself, in document order: those of an
\* appearance and of its material groups, those of a geometry and of its polygons
IdsOfChild(child) ==
    CASE child.tag = "appearance" ->
            <<child.appearance.id>>
            \o [k \in 1..Len(child.appearance.materials) |->
                    child.appearance.materials[k].id]
      [] child.tag \in {"lod3Solid", "lod3MultiSurface"} ->
            <<child.id>> \o child.surface_ids
      [] OTHER -> <<>>

\* the children of a child: those of a filling, none otherwise
Inner(child) == IF child.tag = "filling" THEN child.children ELSE <<>>

\* the places of a child that carry a gml:id: <<n, c, d, k>> is the k-th identifier of
\* child c of node n when d = 0, and of child d of the filling c otherwise
ChildSites(n, c, d, child) == {<<n, c, d, k>> : k \in 1..Len(IdsOfChild(child))}

\* <<n, 0, 0, 1>> is the place of the identifier of the feature of node n
NodeSites(n) ==
    {<<n, 0, 0, 1>>}
    \cup UNION {ChildSites(n, c, 0, nodes[n].children[c])
                \cup UNION {ChildSites(n, c, d, Inner(nodes[n].children[c])[d]) :
                               d \in 1..Len(Inner(nodes[n].children[c]))} :
                c \in 1..Len(nodes[n].children)}

\* the places of the document: a node that was removed from its building is not in it
IdSites == UNION {NodeSites(n) : n \in {m \in NodeIndices : nodes[m].attached}}

IdAt(site) ==
    IF site[2] = 0 THEN nodes[site[1]].id
    ELSE IF site[3] = 0 THEN IdsOfChild(nodes[site[1]].children[site[2]])[site[4]]
    ELSE IdsOfChild(Inner(nodes[site[1]].children[site[2]])[site[3]])[site[4]]

\* C28: the gml:id attributes of one document are pairwise distinct: those of features,
\* geometries, polygons, appearances and material groups, those of doors and windows
\* included, also when a door or window is emitted as a filling more than once.
C28_GmlIdsPairwiseDistinct ==
    \A a, b \in IdSites : a # b => IdAt(a) # IdAt(b)

(***************************************************************************)
(* The targets of the material groups.                                     *)
(***************************************************************************)
\* the face indices of a material group that are positions (0-based) of a polygon
PolygonFaces(m) ==
    {f \in Range(m.faces) : 0 <= f /\ f < Len(geometry.polygons)}

\* the identifier of the geometry node, drawn after those of the polygons (line 981)
GeometryId == Uuid(Len(geometry.surface_ids) + 1)

\* C29: every target of a material group is the identifier of a polygon of the geometry
\* of the same feature (the polygons at the group's face indices, a face index that is
\* no position of a polygon giving no target) or, for a group without face indices,
\* the identifier of that geometry; a feature without geometry gets no appearance.
C29_TargetsAreOwnPolygonsOrOwnGeometry ==
    /\ geometry.polygons = <<>> => appearance = NoAppearance
    /\ pc = "appearance" =>
          \A k \in 1..Len(appearance.materials) :
              LET m == appearance.materials[k]
              IN  IF m.faces # <<>>
                  THEN Range(m.targets) = {geometry.surface_ids[f + 1] : f \in PolygonFaces(m)}
                  ELSE m.targets = <<GeometryId>>

\* the fallback path for a mesh of fewer polygons than the colour map has faces: the
\* first polygon is the only target
C29_Witness ==
    /\ pc = "appearance"
    /\ appearance.path = "fallback"
    /\ appearance.materials[1].faces = <<0, MaxTriangles>>
    /\ Len(geometry.polygons) > 1
    /\ appearance.materials[1].targets = <<geometry.surface_ids[1]>>

(***************************************************************************)
(* The membership property of a storey's cross-reference.                  *)
(***************************************************************************)
\* C30: the membership property under which a storey writes a cross-reference is the
\* one of the kind of the feature it points to: constructive elements under the
\* constructive property, installations and furniture under their own, rooms under
\* the room property.
C30_XlinkPropertyMatchesFeatureKind ==
    \A s \in StoreyNodes : \A x \in Xlinks(s) : \A m \in NodeIndices :
        nodes[m].id = x.href => x.prop = nodes[m].prop

====
